---- MODULE Spec2Model ----
(***************************************************************************)
(* Process supervision core of vllm_test_infra: ProcessManager             *)
(* (python/vllm_test_infra/process.py).  The supervisor is one Python      *)
(* thread; a signal handler runs on top of the interrupted frame and the   *)
(* frame resumes (or receives the handler's exception) when it is done.    *)
(* The call stack is explicit so that a handler can interleave with every  *)
(* line of terminate / terminate_all / run_background.                     *)
(* On top of it: VLLMServer (python/vllm_test_infra/server.py), whose      *)
(* start / stop / with-scope run as frames of the same stack (SpecSrv),    *)
(* and its wait_for_ready polling loop with the drivers that call it       *)
(* (SpecWait), over a clock in seconds.                                    *)
(***************************************************************************)
EXTENDS Integers, Sequences, FiniteSets, TLC

\* ---- bounds of the model ----
MaxPid == 2         \* child processes started in one run
MaxSignals == 1     \* SIGINT/SIGTERM deliveries to the supervisor in one run
CountCap == 2       \* deliveries of one signal to one child are counted up to here

\* ---- program constants ----
WaitInt == 5        \* process.wait(timeout=5) after SIGINT
WaitTerm == 3       \* process.wait(timeout=3) after SIGTERM
WaitKill == 2       \* process.wait(timeout=2) after SIGKILL

MaxTimeout == 3     \* largest timeout passed to wait_for_ready, in seconds
MaxInterval == 2    \* largest check_interval passed to wait_for_ready
MaxLog == 2         \* lines the server writes to its log in one run
MaxRates == 2       \* request rates of one benchmark variant
EpochStart == 10    \* time.time() when the run begins (any value >= LogCheckPeriod)

LogCheckPeriod == 2 \* current_time - last_log_check >= 2.0
ProbeTimeout == 2   \* requests.get(url, timeout=2)

Names == {"a", "b"}
\* the logical name "vllm_server" every VLLMServer registers its process under
ServerName == "a"
Sessions == {"s1", "s2"}

\* ---- environment overrides: strings are sequences of characters ----
\* str.strip() (the only whitespace written in the model is the blank)
RECURSIVE StripLeft(_)
StripLeft(str) ==
    IF str # <<>> /\ Head(str) = " " THEN StripLeft(Tail(str)) ELSE str

RECURSIVE StripRight(_)
StripRight(str) ==
    IF str # <<>> /\ str[Len(str)] = " "
    THEN StripRight(SubSeq(str, 1, Len(str) - 1))
    ELSE str

StripStr(str) == StripRight(StripLeft(str))

\* position of the first c in str, 0 when there is none
Find(str, c) ==
    IF \E i \in 1..Len(str) : str[i] = c
    THEN CHOOSE i \in 1..Len(str) :
            str[i] = c /\ \A j \in 1..(i - 1) : str[j] # c
    ELSE 0

\* str.split(c)
RECURSIVE Split(_, _)
Split(str, c) ==
    IF Find(str, c) = 0 THEN <<str>>
    ELSE <<SubSeq(str, 1, Find(str, c) - 1)>>
             \o Split(SubSeq(str, Find(str, c) + 1, Len(str)), c)

\* c.join(parts)
RECURSIVE Join(_, _)
Join(parts, c) ==
    IF parts = <<>> THEN <<>>
    ELSE IF Len(parts) = 1 THEN parts[1]
    ELSE parts[1] \o <<c>> \o Join(Tail(parts), c)

\* a dict is the sequence of its (key, value) items in insertion order;
\* d[key] = value keeps the place of a key that is already there
DictSet(d, key, value) ==
    IF \E i \in 1..Len(d) : d[i][1] = key
    THEN [i \in 1..Len(d) |-> IF d[i][1] = key THEN <<key, value>> ELSE d[i]]
    ELSE Append(d, <<key, value>>)

\* dict equality does not look at the order
DictItems(d) == {d[i] : i \in 1..Len(d)}

\* server.py 96-100: the loop over env_csv.split(',')
RECURSIVE ParseItems(_, _)
ParseItems(parts, d) ==
    IF parts = <<>> THEN d
    ELSE LET kv == StripStr(Head(parts))
             eq == Find(kv, "=")
         IN  IF eq # 0
             THEN ParseItems(Tail(parts),
                      DictSet(d, StripStr(SubSeq(kv, 1, eq - 1)),
                                 StripStr(SubSeq(kv, eq + 1, Len(kv)))))
             ELSE ParseItems(Tail(parts), d)

\* server.py 94-100: env_dict of _build_command
parse_env_csv(env_csv) ==
    IF env_csv = <<>> THEN <<>> ELSE ParseItems(Split(env_csv, ","), <<>>)

\* server.py 257: ','.join(f"{k}={v}" for k, v in self._extra_env.items())
env_to_csv(d) ==
    Join([i \in 1..Len(d) |-> d[i][1] \o <<"=">> \o d[i][2]], ",")

\* (args, env_csv) passed to start()
Launches == {<<"args1", <<>>>>, <<"args2", <<" ", "K", "=", "V">>>>}
LogLines == {"info", "fatal"}
Pids == 1..MaxPid
StageSignals == <<"SIGINT", "SIGTERM", "SIGKILL">>
Signals == {"SIGINT", "SIGTERM", "SIGKILL"}

VARIABLES
    processes,   \* self.processes: name -> pid of the Popen registered, 0 = no key
    order,       \* insertion order of the keys of self.processes
    proc,        \* OS view of every child: "none", "running", "denied" (running
                 \* under credentials the supervisor may not signal), "zombie",
                 \* "reaped"
    nextPid,     \* next pid the OS hands out
    stack,       \* Python call stack of the supervisor, top = last element
    exc,         \* exception in flight ("none" when there is none)
    phase,       \* "running", "atexit" (interpreter shutting down), "exited"
    last,        \* record of the call that completed most recently
    delivered,   \* unreaped pid -> signal -> successful killpg deliveries
    sigCount,    \* signals received by the supervisor so far
    sigSnap,     \* pids registered at the moment a signal was received
    sessions,    \* VLLMServer objects sharing the ProcessManager: session ->
                 \* [proc: pid held in _server_process (0 = None),
                 \*  args: _server_args, env: _extra_env (a dict)]
    clock,       \* time.time(), in seconds
    srvlog,      \* lines of the server log file, oldest first
    httpReady,   \* the server answers /health and /v1/models with 200
    wfr,         \* locals and outcome of the wait_for_ready call
    driver,      \* position of the driver (run_variant / run_evaluation)
    fn           \* one call of a function without side effects:
                 \* [op, in: its arguments, done, out: what it returned]

srvVars == <<sessions, clock, srvlog, httpReady, wfr, driver, fn>>

vars == <<processes, order, proc, nextPid, stack, exc, phase, last,
          delivered, sigCount, sigSnap, sessions, clock, srvlog, httpReady,
          wfr, driver, fn>>

\* ---------------------------------------------------------------------
\* helpers over the call stack
\* ---------------------------------------------------------------------
Top == stack[Len(stack)]
Pop == SubSeq(stack, 1, Len(stack) - 1)
SetTop(f) == [stack EXCEPT ![Len(stack)] = f]
\* the call that starts now repeats the call that completed just before it
Again(kind, name) == last.kind = kind /\ last.name = name

NewFrame(kind, pc, name) ==
    [kind |-> kind, pc |-> pc, name |-> name, pid |-> 0,
     todo |-> <<>>, trace |-> <<>>, regBefore |-> processes, intr |-> FALSE,
     signum |-> "none", again |-> FALSE, ran |-> {},
     alive |-> FALSE, held |-> "none", calls |-> 0, arg |-> <<>>,
     live |-> {}, sessBefore |-> sessions]

Rec(f, result, reg) ==
    [kind |-> f.kind, name |-> f.name, pid |-> f.pid, result |-> result,
     trace |-> f.trace, regBefore |-> f.regBefore, regAfter |-> reg,
     intr |-> f.intr, again |-> f.again, ran |-> f.ran,
     alive |-> f.alive, held |-> f.held, calls |-> f.calls, arg |-> f.arg,
     live |-> f.live, sessBefore |-> f.sessBefore, sessAfter |-> sessions]

\* a VLLMServer right after __init__
NoSession == [proc |-> 0, args |-> "", env |-> <<>>]

NoCall ==
    [kind |-> "none", name |-> "", pid |-> 0, result |-> "none",
     trace |-> <<>>, regBefore |-> [n \in Names |-> 0],
     regAfter |-> [n \in Names |-> 0], intr |-> FALSE,
     again |-> FALSE, ran |-> {}, alive |-> FALSE, held |-> "none",
     calls |-> 0, arg |-> <<>>, live |-> {}, sessBefore |-> [s \in Sessions |-> NoSession],
     sessAfter |-> [s \in Sessions |-> NoSession]]

None == -1

\* wait_for_ready before it is called
WfrIdle ==
    [pc |-> "idle", timeout |-> 0, check_interval |-> 0, has_log |-> FALSE,
     start_time |-> 0, last_log_check |-> 0, resp |-> "none",
     result |-> "none", doneAt |-> 0, probes |-> 0, scans |-> 0,
     fatalFirst |-> FALSE, fatalCall |-> FALSE, fatalEnd |-> FALSE,
     aliveCall |-> FALSE, aliveEnd |-> FALSE, scanSaw |-> FALSE,
     checkDead |-> FALSE, scanAt |-> None, scanGap |-> None,
     scanPos |-> None]

NoDriver == [kind |-> "none", pc |-> "idle", clients |-> 0, todo |-> 0]

NoFn == [op |-> "none", in |-> <<>>, done |-> FALSE, out |-> <<>>]

KillEv(sig, res) == [ev |-> "kill", sig |-> sig, secs |-> 0, res |-> res]
WaitEv(secs, res) == [ev |-> "wait", sig |-> "none", secs |-> secs, res |-> res]

RECURSIVE Without(_, _)
Without(s, n) ==
    IF s = <<>> THEN <<>>
    ELSE IF Head(s) = n THEN Without(Tail(s), n)
    ELSE <<Head(s)>> \o Without(Tail(s), n)

Registered == {n \in Names : processes[n] # 0}
RegisteredPids == {processes[n] : n \in Registered}

\* process.poll() is None
Running(p) == proc[p] \in {"running", "denied"}


InitSupervisor ==
    /\ processes = [n \in Names |-> 0]
    /\ order = <<>>
    /\ proc = [p \in Pids |-> "none"]
    /\ nextPid = 1
    /\ stack = <<>>
    /\ exc = "none"
    /\ phase = "running"
    /\ last = NoCall
    /\ delivered = [p \in Pids |-> [s \in Signals |-> 0]]
    /\ sigCount = 0
    /\ sigSnap = {}
    /\ sessions = [s \in Sessions |-> NoSession]
    /\ clock = EpochStart
    /\ srvlog = <<>>
    /\ httpReady = FALSE
    /\ wfr = WfrIdle
    /\ driver = NoDriver

Init ==
    /\ InitSupervisor
    /\ fn = NoFn

\* ---------------------------------------------------------------------
\* the children, as the OS sees them
\* ---------------------------------------------------------------------
\* poll()/wait() collected the exit status: the OS forgets the child
Reap(p) ==
    /\ proc' = [proc EXCEPT ![p] = "reaped"]
    /\ sigSnap' = sigSnap \ {p}
    /\ delivered' = [delivered EXCEPT ![p] = [s \in Signals |-> 0]]

\* a child exits, by itself or because of a signal it did not ignore (it
\* stays a zombie until poll()/wait() reaps it); a child that never takes
\* this step ignores what it is sent
ChildExit(p) ==
    /\ phase # "exited"
    /\ Running(p)
    /\ proc' = [proc EXCEPT ![p] = "zombie"]
    /\ UNCHANGED <<processes, order, nextPid, stack, exc, phase, last,
                   delivered, sigCount, sigSnap>>
    /\ UNCHANGED srvVars

\* os.killpg(os.getpgid(pid), sig): the group of a reaped child is gone
\* (ProcessLookupError); otherwise the OS delivers the signal or refuses it
\* (PermissionError).
KillOutcomes(p) ==
    IF proc[p] = "reaped" THEN {"ProcessLookupError"}
    ELSE IF proc[p] = "denied" THEN {"PermissionError"}
    ELSE {"ok"}

\* SIGKILL cannot be ignored: the child is gone at once, unless the kernel
\* cannot tear it down for now (uninterruptible sleep) and it stays
AfterKill(p, sig) ==
    IF sig = "SIGKILL" /\ Running(p) THEN {"zombie", proc[p]} ELSE {proc[p]}

\* ---------------------------------------------------------------------
\* calls issued by the main flow (the drivers)
\* ---------------------------------------------------------------------
MainIdle ==
    /\ phase = "running"
    /\ stack = <<>>
    /\ exc = "none"

run_background_call(n) ==
    /\ MainIdle
    /\ nextPid <= MaxPid
    /\ stack' = <<[NewFrame("run_background", "L144", n) EXCEPT
                      !.alive = (processes[n] # 0 /\ Running(processes[n]))]>>
    /\ last' = NoCall
    /\ UNCHANGED <<processes, order, proc, nextPid, exc, phase,
                   delivered, sigCount, sigSnap>>
    /\ UNCHANGED srvVars

terminate_call(n) ==
    /\ MainIdle
    /\ stack' = <<[NewFrame("terminate", "L184", n) EXCEPT
                      !.again = Again("terminate", n)]>>
    /\ last' = NoCall
    /\ UNCHANGED <<processes, order, proc, nextPid, exc, phase,
                   delivered, sigCount, sigSnap>>
    /\ UNCHANGED srvVars

terminate_all_call ==
    /\ MainIdle
    /\ stack' = <<[NewFrame("terminate_all", "L235", "") EXCEPT
                      !.again = Again("terminate_all", "")]>>
    /\ last' = NoCall
    /\ UNCHANGED <<processes, order, proc, nextPid, exc, phase,
                   delivered, sigCount, sigSnap>>
    /\ UNCHANGED srvVars

\* the script ends: the interpreter runs the atexit callbacks
main_exit ==
    /\ MainIdle
    /\ phase' = "atexit"
    /\ stack' = <<NewFrame("cleanup_on_exit", "L254", "")>>
    /\ UNCHANGED <<processes, order, proc, nextPid, exc, last,
                   delivered, sigCount, sigSnap>>
    /\ UNCHANGED srvVars

\* an exception reached the driver: the drivers catch Exception around
\* their work items and go on
main_catches ==
    /\ phase = "running"
    /\ stack = <<>>
    /\ exc \notin {"none", "KeyboardInterrupt"}
    /\ exc' = "none"
    /\ UNCHANGED <<processes, order, proc, nextPid, stack, phase, last,
                   delivered, sigCount, sigSnap>>
    /\ UNCHANGED srvVars

\* ... or the exception ends the script (KeyboardInterrupt always does)
main_dies ==
    /\ phase = "running"
    /\ stack = <<>>
    /\ exc # "none"
    /\ exc' = "none"
    /\ phase' = "atexit"
    /\ stack' = <<NewFrame("cleanup_on_exit", "L254", "")>>
    /\ UNCHANGED <<processes, order, proc, nextPid, last,
                   delivered, sigCount, sigSnap>>
    /\ UNCHANGED srvVars

\* ---------------------------------------------------------------------
\* steps of the frame on top of the stack
\* ---------------------------------------------------------------------
At(kind, pc) ==
    /\ phase # "exited"
    /\ exc = "none"
    /\ stack # <<>>
    /\ Top.kind = kind
    /\ Top.pc = pc

Return(f, result, reg) ==
    /\ stack' = Pop
    /\ last' = Rec(f, result, reg)

\* ---- run_background ----
run_background_popen ==
    /\ At("run_background", "L144")
    /\ \E st \in {"running", "denied"} : proc' = [proc EXCEPT ![nextPid] = st]
    /\ nextPid' = nextPid + 1
    /\ stack' = SetTop([Top EXCEPT !.pid = nextPid, !.pc = "L154"])
    /\ UNCHANGED <<processes, order, exc, phase, last,
                   delivered, sigCount, sigSnap>>
    /\ UNCHANGED srvVars

run_background_register ==
    /\ At("run_background", "L154")
    /\ processes' = [processes EXCEPT ![Top.name] = Top.pid]
    /\ order' = IF processes[Top.name] # 0 THEN order
                ELSE Append(order, Top.name)
    /\ Return(Top, "Popen", processes')
    /\ UNCHANGED <<proc, nextPid, exc, phase,
                   delivered, sigCount, sigSnap>>
    /\ UNCHANGED srvVars

\* ---- terminate ----
KillPc == <<"L199", "L214", "L224">>
WaitPc == <<"L205", "L215", "L225">>
DelPc == <<"L207", "L217", "L230">>
Waits == <<WaitInt, WaitTerm, WaitKill>>

\* terminate without its SIGTERM stage: a timeout of the wait after SIGINT
\* goes straight to SIGKILL
CatchTargetSkipsTerm(pc, e) ==
    IF pc = "L199" /\ e \in {"ProcessLookupError", "PermissionError"}
        THEN "L205"
    ELSE IF pc \in {"L205", "L207"} /\ e = "TimeoutExpired"
        THEN "L224"
    ELSE IF pc \in {"L214", "L215", "L217"}
            /\ e \in {"TimeoutExpired", "ProcessLookupError", "PermissionError"}
        THEN "L224"
    ELSE IF pc \in {"L224", "L225"}
            /\ e \in {"ProcessLookupError", "PermissionError"}
        THEN "L230"
    ELSE "none"

\* the except clauses of terminate: where control goes when exception e is
\* raised while the frame is at pc ("none": the exception leaves terminate)
CatchTarget(pc, e) ==
    IF pc = "L199" /\ e \in {"ProcessLookupError", "PermissionError"}
        THEN "L205"
    ELSE IF pc \in {"L205", "L207"} /\ e = "TimeoutExpired"
        THEN "L214"
    ELSE IF pc \in {"L214", "L215", "L217"}
            /\ e \in {"TimeoutExpired", "ProcessLookupError", "PermissionError"}
        THEN "L224"
    ELSE IF pc \in {"L224", "L225"}
            /\ e \in {"ProcessLookupError", "PermissionError"}
        THEN "L230"
    ELSE "none"

\* line 184: if name not in self.processes: return False
terminate_lookup ==
    /\ At("terminate", "L184")
    /\ IF processes[Top.name] = 0
          THEN Return(Top, "False", processes)
          ELSE /\ stack' = SetTop([Top EXCEPT !.pc = "L187"])
               /\ UNCHANGED last
    /\ UNCHANGED <<processes, order, proc, nextPid, exc, phase,
                   delivered, sigCount, sigSnap>>
    /\ UNCHANGED srvVars

\* line 187: process = self.processes[name]
terminate_fetch ==
    /\ At("terminate", "L187")
    /\ IF processes[Top.name] = 0
          THEN /\ exc' = "KeyError"
               /\ UNCHANGED stack
          ELSE /\ stack' = SetTop([Top EXCEPT !.pid = processes[Top.name],
                                              !.pc = "L189"])
               /\ UNCHANGED exc
    /\ UNCHANGED <<processes, order, proc, nextPid, phase, last,
                   delivered, sigCount, sigSnap>>
    /\ UNCHANGED srvVars

\* line 189: if process.poll() is not None (poll reaps an exited child)
terminate_poll ==
    /\ At("terminate", "L189")
    /\ IF Running(Top.pid)
          THEN /\ stack' = SetTop([Top EXCEPT !.pc = "L199"])
               /\ UNCHANGED <<proc, delivered, sigSnap>>
          ELSE /\ stack' = SetTop([Top EXCEPT !.pc = "L191"])
               /\ Reap(Top.pid)
    /\ UNCHANGED <<processes, order, nextPid, exc, phase, last, sigCount>>
    /\ UNCHANGED srvVars

\* del self.processes[name], then return result
DelAndReturn(result) ==
    IF processes[Top.name] = 0
       THEN /\ exc' = "KeyError"
            /\ UNCHANGED <<processes, order, stack, last>>
       ELSE /\ processes' = [processes EXCEPT ![Top.name] = 0]
            /\ order' = Without(order, Top.name)
            /\ Return(Top, result, processes')
            /\ UNCHANGED exc
    /\ UNCHANGED fn

\* lines 191-192: already dead
terminate_del_dead ==
    /\ At("terminate", "L191")
    /\ DelAndReturn("False")
    /\ UNCHANGED <<proc, nextPid, phase,
                   delivered, sigCount, sigSnap>>
    /\ UNCHANGED srvVars

\* lines 199, 214, 224: os.killpg(os.getpgid(process.pid), <stage signal>)
terminate_kill(i) ==
    /\ At("terminate", KillPc[i])
    /\ \E res \in KillOutcomes(Top.pid) :
        LET p == Top.pid
            sig == StageSignals[i]
            f == [Top EXCEPT !.trace = Append(@, KillEv(sig, res))]
        IN  /\ IF res = "ok"
                  THEN /\ delivered' = [delivered EXCEPT ![p][sig] =
                                          IF @ < CountCap THEN @ + 1 ELSE @]
                       /\ \E st \in AfterKill(p, sig) :
                                proc' = [proc EXCEPT ![p] = st]
                       /\ stack' = SetTop([f EXCEPT !.pc = WaitPc[i]])
                       /\ UNCHANGED exc
                  ELSE /\ exc' = res
                       /\ stack' = SetTop(f)
                       /\ UNCHANGED <<delivered, proc>>
    /\ UNCHANGED <<processes, order, nextPid, phase, last,
                   sigCount, sigSnap>>
    /\ UNCHANGED srvVars

terminate_wait_goes_on(i) ==
    /\ At("terminate", WaitPc[i])
    /\ IF Running(Top.pid)
          THEN /\ exc' = "TimeoutExpired"
               /\ stack' = SetTop([Top EXCEPT
                                !.trace = Append(@, WaitEv(Waits[i], "timeout"))])
               /\ UNCHANGED <<proc, delivered, sigSnap>>
          ELSE /\ Reap(Top.pid)
               /\ stack' = SetTop([Top EXCEPT
                                !.trace = Append(@, WaitEv(Waits[i], "exit")),
                                !.pc = IF i < 3 THEN KillPc[i + 1] ELSE DelPc[i]])
               /\ UNCHANGED exc
    /\ UNCHANGED <<processes, order, nextPid, phase, last, sigCount>>
    /\ UNCHANGED srvVars

\* lines 205, 215, 225: process.wait(timeout=<stage bound>)
terminate_wait(i) ==
    /\ At("terminate", WaitPc[i])
    /\ IF Running(Top.pid)
          THEN /\ exc' = "TimeoutExpired"
               /\ stack' = SetTop([Top EXCEPT
                                !.trace = Append(@, WaitEv(Waits[i], "timeout"))])
               /\ UNCHANGED <<proc, delivered, sigSnap>>
          ELSE /\ Reap(Top.pid)
               /\ stack' = SetTop([Top EXCEPT
                                !.trace = Append(@, WaitEv(Waits[i], "exit")),
                                !.pc = DelPc[i]])
               /\ UNCHANGED exc
    /\ UNCHANGED <<processes, order, nextPid, phase, last, sigCount>>
    /\ UNCHANGED srvVars

\* lines 207-208, 217-218, 230-231: del self.processes[name]; return True
terminate_del(i) ==
    /\ At("terminate", DelPc[i])
    /\ DelAndReturn("True")
    /\ UNCHANGED <<proc, nextPid, phase,
                   delivered, sigCount, sigSnap>>
    /\ UNCHANGED srvVars

\* ---- terminate_all ----
\* lines 235-241
terminate_all_snapshot ==
    /\ At("terminate_all", "L235")
    /\ IF Registered = {}
          THEN Return(Top, "None", processes)
          ELSE /\ stack' = SetTop([Top EXCEPT !.todo = order, !.pc = "L243"])
               /\ UNCHANGED last
    /\ UNCHANGED <<processes, order, proc, nextPid, exc, phase,
                   delivered, sigCount, sigSnap>>
    /\ UNCHANGED srvVars

\* lines 243-244: for name in process_names: self.terminate(name)
terminate_all_loop ==
    /\ At("terminate_all", "L243")
    /\ IF Top.todo = <<>>
          THEN stack' = SetTop([Top EXCEPT !.pc = "L247"])
          ELSE stack' = Append(
                   SetTop([Top EXCEPT !.todo = Tail(@),
                                      !.ran = @ \cup {Head(Top.todo)}]),
                   [NewFrame("terminate", "L184", Head(Top.todo)) EXCEPT
                       !.again = Again("terminate", Head(Top.todo))])
    /\ UNCHANGED <<processes, order, proc, nextPid, exc, phase, last,
                   delivered, sigCount, sigSnap>>
    /\ UNCHANGED srvVars

\* line 247: time.sleep(1), then return
terminate_all_sleep ==
    /\ At("terminate_all", "L247")
    /\ Return(Top, "None", processes)
    /\ UNCHANGED <<processes, order, proc, nextPid, exc, phase,
                   delivered, sigCount, sigSnap>>
    /\ UNCHANGED srvVars

\* ---- ProcessManager._signal_handler ----
\* the supervisor receives SIGINT or SIGTERM: the handler installed by
\* __init__ runs on top of whatever the supervisor was doing
Signal(signum) ==
    /\ phase # "exited"
    /\ exc = "none"
    /\ sigCount < MaxSignals
    /\ sigCount' = sigCount + 1
    /\ sigSnap' = sigSnap \cup RegisteredPids
    /\ stack' = Append([i \in DOMAIN stack |-> [stack[i] EXCEPT !.intr = TRUE]],
                       [NewFrame("signal_handler", "L40", "") EXCEPT
                           !.signum = signum])
    /\ UNCHANGED <<processes, order, proc, nextPid, exc, phase, last,
                   delivered>>
    /\ UNCHANGED srvVars

\* line 40: self.terminate_all()
signal_handler_cleanup ==
    /\ At("signal_handler", "L40")
    /\ stack' = Append(SetTop([Top EXCEPT !.pc = "L42"]),
                       [NewFrame("terminate_all", "L235", "") EXCEPT
                           !.again = Again("terminate_all", "")])
    /\ last' = NoCall
    /\ UNCHANGED <<processes, order, proc, nextPid, exc, phase,
                   delivered, sigCount, sigSnap>>
    /\ UNCHANGED srvVars

\* lines 42-43: if signum == signal.SIGINT: raise KeyboardInterrupt()
signal_handler_reraise ==
    /\ At("signal_handler", "L42")
    /\ stack' = Pop
    /\ exc' = IF Top.signum = "SIGINT" THEN "KeyboardInterrupt" ELSE "none"
    /\ UNCHANGED <<processes, order, proc, nextPid, phase, last,
                   delivered, sigCount, sigSnap>>
    /\ UNCHANGED srvVars

\* ---- cleanup_on_exit (atexit) ----
\* line 254: self.terminate_all()
cleanup_on_exit_terminate ==
    /\ At("cleanup_on_exit", "L254")
    /\ stack' = Append(SetTop([Top EXCEPT !.pc = "L257"]),
                       [NewFrame("terminate_all", "L235", "") EXCEPT
                           !.again = Again("terminate_all", "")])
    /\ last' = NoCall
    /\ UNCHANGED <<processes, order, proc, nextPid, exc, phase,
                   delivered, sigCount, sigSnap>>
    /\ UNCHANGED srvVars

\* line 257: cleanup_zombie_processes() runs pkill -9 -f over fixed command
\* patterns: the children whose command line matches one of them are killed
cleanup_zombie_processes ==
    /\ At("cleanup_on_exit", "L257")
    /\ \E K \in SUBSET {p \in Pids : Running(p)} :
          proc' = [p \in Pids |-> IF p \in K THEN "zombie" ELSE proc[p]]
    /\ stack' = Pop
    /\ phase' = "exited"
    /\ UNCHANGED <<processes, order, nextPid, exc, last,
                   delivered, sigCount, sigSnap>>
    /\ UNCHANGED srvVars

\* ---- exception propagation ----
\* the exception in flight is caught by an except clause of the top frame,
\* or leaves that frame; atexit prints and drops what a callback raises
Unwind ==
    /\ exc # "none"
    /\ stack # <<>>
    /\ IF Top.kind = "terminate" /\ CatchTarget(Top.pc, exc) # "none"
          THEN /\ stack' = SetTop([Top EXCEPT !.pc = CatchTarget(Top.pc, exc)])
               /\ exc' = "none"
               /\ UNCHANGED <<phase, last>>
       ELSE IF Top.kind = "with" /\ Top.pc = "body"
          THEN /\ stack' = SetTop([Top EXCEPT !.held = exc, !.pc = "exit"])
               /\ exc' = "none"
               /\ UNCHANGED <<phase, last>>
       ELSE IF Top.kind = "cleanup_on_exit"
          THEN /\ stack' = Pop
               /\ exc' = "none"
               /\ phase' = "exited"
               /\ UNCHANGED last
       ELSE /\ stack' = Pop
            /\ last' = IF Top.kind = "signal_handler" THEN last
                       ELSE Rec(Top, exc, processes)
            /\ UNCHANGED <<exc, phase>>
    /\ UNCHANGED <<processes, order, proc, nextPid,
                   delivered, sigCount, sigSnap>>
    /\ UNCHANGED srvVars

Next ==
    \/ \E n \in Names : run_background_call(n)
    \/ \E n \in Names : terminate_call(n)
    \/ terminate_all_call
    \/ main_exit
    \/ main_catches
    \/ main_dies
    \/ run_background_popen
    \/ run_background_register
    \/ terminate_lookup
    \/ terminate_fetch
    \/ terminate_poll
    \/ terminate_del_dead
    \/ \E i \in 1..3 : terminate_kill(i)
    \/ \E i \in 1..3 : terminate_wait(i)
    \/ \E i \in 1..3 : terminate_del(i)
    \/ terminate_all_snapshot
    \/ terminate_all_loop
    \/ terminate_all_sleep
    \/ \E sg \in {"SIGINT", "SIGTERM"} : Signal(sg)
    \/ signal_handler_cleanup
    \/ signal_handler_reraise
    \/ cleanup_on_exit_terminate
    \/ cleanup_zombie_processes
    \/ Unwind
    \/ \E p \in Pids : ChildExit(p)

Spec == Init /\ [][Next]_vars

\* the supervisor when no SIGINT/SIGTERM reaches it: the main flow and the
\* interpreter-exit cleanup only
NextSeq ==
    \/ \E n \in Names : run_background_call(n)
    \/ \E n \in Names : terminate_call(n)
    \/ terminate_all_call
    \/ main_exit
    \/ main_catches
    \/ main_dies
    \/ run_background_popen
    \/ run_background_register
    \/ terminate_lookup
    \/ terminate_fetch
    \/ terminate_poll
    \/ terminate_del_dead
    \/ \E i \in 1..3 : terminate_kill(i)
    \/ \E i \in 1..3 : terminate_wait(i)
    \/ \E i \in 1..3 : terminate_del(i)
    \/ terminate_all_snapshot
    \/ terminate_all_loop
    \/ terminate_all_sleep
    \/ cleanup_on_exit_terminate
    \/ cleanup_zombie_processes
    \/ Unwind
    \/ \E p \in Pids : ChildExit(p)

SpecSeq == Init /\ [][NextSeq]_vars

\* ---------------------------------------------------------------------
\* VLLMServer.wait_for_ready (python/vllm_test_infra/server.py) and the
\* drivers that call it.  The server process is pid 1, registered under
\* ServerName by the start() that precedes the call.
\* ---------------------------------------------------------------------
InitWait ==
    /\ processes = [n \in Names |-> IF n = ServerName THEN 1 ELSE 0]
    /\ order = <<ServerName>>
    /\ \E st \in {"running", "zombie"} :
          proc = [p \in Pids |-> IF p = 1 THEN st ELSE "none"]
    /\ nextPid = 2
    /\ stack = <<>>
    /\ exc = "none"
    /\ phase = "running"
    /\ last = NoCall
    /\ delivered = [p \in Pids |-> [s \in Signals |-> 0]]
    /\ sigCount = 0
    /\ sigSnap = {}
    /\ sessions = [s \in Sessions |->
                      IF s = "s1" THEN [NoSession EXCEPT !.proc = 1]
                      ELSE NoSession]
    /\ clock = EpochStart
    /\ srvlog = <<>>
    /\ httpReady = FALSE
    /\ wfr = WfrIdle
    /\ fn = NoFn
    /\ \E k \in {"run_variant", "run_evaluation"} :
          driver = [kind |-> k, pc |-> "wait", clients |-> 0,
                    todo |-> IF k = "run_variant" THEN MaxRates ELSE 1]

\* is_running("vllm_server") as the OS would answer it now
ServerAlive == processes[ServerName] # 0 /\ Running(processes[ServerName])

\* re.compile(p, re.IGNORECASE).search(line) for some p of ERROR_PATTERNS
IsFatal(line) == line = "fatal"

\* LogManager.search_file_for_patterns(name, ERROR_PATTERNS, start_pos=0):
\* index of the first line that matches a pattern, 0 for None
search_file_for_patterns(lines) ==
    IF \E i \in 1..Len(lines) : IsFatal(lines[i])
    THEN CHOOSE i \in 1..Len(lines) :
            /\ IsFatal(lines[i])
            /\ \A j \in 1..(i - 1) : ~IsFatal(lines[j])
    ELSE 0

HasFatal(lines) == search_file_for_patterns(lines) # 0

\* what requests.get(url, timeout=2) yields: a status code, or "error" for a
\* requests.RequestException (refused, reset, timed out)
ProbeOutcomes ==
    IF httpReady /\ ServerAlive THEN {"200"}
    ELSE {"error", "503"}

\* the server writes a line to its log
LogWrite(line) ==
    /\ wfr.result = "none"
    /\ Len(srvlog) < MaxLog
    /\ srvlog' = Append(srvlog, line)
    /\ wfr' = [wfr EXCEPT !.fatalFirst = @ \/ (IsFatal(line) /\ ~httpReady)]
    /\ UNCHANGED <<processes, order, proc, nextPid, stack, exc, phase, last,
                   delivered, sigCount, sigSnap, sessions, clock, httpReady,
                   driver>>
    /\ UNCHANGED fn

\* the server finished loading: from now on its endpoints answer 200
ServerReady ==
    /\ wfr.result = "none"
    /\ ~httpReady
    /\ ServerAlive
    /\ httpReady' = TRUE
    /\ UNCHANGED <<processes, order, proc, nextPid, stack, exc, phase, last,
                   delivered, sigCount, sigSnap, sessions, clock, srvlog,
                   wfr, driver>>
    /\ UNCHANGED fn

\* the call ends at time t: return True / return False / raise
Complete(result, t) ==
    [wfr EXCEPT !.pc = "done", !.result = result, !.doneAt = t,
                !.fatalEnd = HasFatal(srvlog),
                !.aliveEnd = ServerAlive]

\* lines 173-175: the driver calls wait_for_ready(timeout, check_interval)
wait_for_ready_call ==
    /\ driver.pc = "wait"
    /\ wfr.pc = "idle"
    /\ \E T \in 0..MaxTimeout, p \in 1..MaxInterval, lg \in BOOLEAN :
          wfr' = [wfr EXCEPT !.pc = "L177", !.timeout = T,
                             !.check_interval = p, !.has_log = lg,
                             !.start_time = clock, !.last_log_check = 0,
                             !.fatalCall = HasFatal(srvlog),
                             !.aliveCall = ServerAlive]
    /\ UNCHANGED <<processes, order, proc, nextPid, stack, exc, phase, last,
                   delivered, sigCount, sigSnap, sessions, clock, srvlog,
                   httpReady, driver>>
    /\ UNCHANGED fn

\* the loop test off by one: an iteration starts at elapsed = timeout
wait_for_ready_while_inclusive ==
    /\ wfr.pc = "L177"
    /\ wfr' = IF clock - wfr.start_time <= wfr.timeout
              THEN [wfr EXCEPT !.pc = "L179"]
              ELSE Complete("False", clock)
    /\ UNCHANGED <<processes, order, proc, nextPid, stack, exc, phase, last,
                   delivered, sigCount, sigSnap, sessions, clock, srvlog,
                   httpReady, driver>>
    /\ UNCHANGED fn

\* line 177: while time.time() - start_time < timeout; lines 225-226 after it
wait_for_ready_while ==
    /\ wfr.pc = "L177"
    /\ wfr' = IF clock - wfr.start_time < wfr.timeout
              THEN [wfr EXCEPT !.pc = "L179"]
              ELSE Complete("False", clock)
    /\ UNCHANGED <<processes, order, proc, nextPid, stack, exc, phase, last,
                   delivered, sigCount, sigSnap, sessions, clock, srvlog,
                   httpReady, driver>>
    /\ UNCHANGED fn

\* the liveness check left out: a dead process is polled like a live one
wait_for_ready_alive_retries ==
    /\ wfr.pc = "L179"
    /\ wfr' = [wfr EXCEPT !.pc = "L185",
                          !.checkDead = @ \/ ~ServerAlive]
    /\ UNCHANGED <<processes, order, proc, nextPid, stack, exc, phase, last,
                   delivered, sigCount, sigSnap, sessions, clock, srvlog,
                   httpReady, driver>>
    /\ UNCHANGED fn

\* lines 179-184: if not self.process_manager.is_running("vllm_server"): raise
wait_for_ready_alive ==
    /\ wfr.pc = "L179"
    /\ LET p == processes[ServerName] IN
          IF p # 0 /\ Running(p)
          THEN /\ wfr' = [wfr EXCEPT !.pc = "L185"]
               /\ UNCHANGED <<proc, delivered, sigSnap>>
          ELSE /\ wfr' = [Complete("VLLMServerError: died", clock)
                              EXCEPT !.checkDead = TRUE]
               /\ IF p # 0 /\ proc[p] = "zombie" THEN Reap(p)
                  ELSE UNCHANGED <<proc, delivered, sigSnap>>
    /\ UNCHANGED <<processes, order, nextPid, stack, exc, phase, last,
                   sigCount, sessions, clock, srvlog, httpReady, driver>>
    /\ UNCHANGED fn

\* last_log_check initialised to start_time instead of 0: no scan in the
\* first LogCheckPeriod seconds of the call
ScanDueSinceStart ==
    /\ wfr.has_log
    /\ clock - wfr.last_log_check >= LogCheckPeriod
    /\ clock - wfr.start_time >= LogCheckPeriod

\* lines 187-203: the throttled scan of the server log
ScanDue == wfr.has_log /\ clock - wfr.last_log_check >= LogCheckPeriod

\* f.seek(start_pos): the lines after the offset
LogFrom(lines, start_pos) == SubSeq(lines, start_pos + 1, Len(lines))

\* the scan as it is recorded: its offset, and the time since the scan before
Scanned(w, start_pos) ==
    [w EXCEPT !.scans = 1, !.scanPos = start_pos, !.scanAt = clock,
              !.scanGap = IF wfr.scanAt # None THEN clock - wfr.scanAt ELSE @]

\* the scan without line 203: last_log_check stays 0
wait_for_ready_scan_keeps_time ==
    /\ wfr.pc = "L185"
    /\ wfr' = IF ~ScanDue THEN [wfr EXCEPT !.pc = "L207"]
              ELSE IF search_file_for_patterns(LogFrom(srvlog, 0)) # 0
              THEN Scanned([Complete("VLLMServerError: fatal", clock)
                                EXCEPT !.scanSaw = TRUE], 0)
              ELSE Scanned([wfr EXCEPT !.pc = "L207"], 0)
    /\ UNCHANGED <<processes, order, proc, nextPid, stack, exc, phase, last,
                   delivered, sigCount, sigSnap, sessions, clock, srvlog,
                   httpReady, driver>>
    /\ UNCHANGED fn

wait_for_ready_scan ==
    /\ wfr.pc = "L185"
    /\ wfr' = IF ~ScanDue THEN [wfr EXCEPT !.pc = "L207"]
              ELSE IF search_file_for_patterns(LogFrom(srvlog, 0)) # 0
              THEN Scanned([Complete("VLLMServerError: fatal", clock)
                                EXCEPT !.scanSaw = TRUE], 0)
              ELSE Scanned([wfr EXCEPT !.pc = "L207", !.last_log_check = clock], 0)
    /\ UNCHANGED <<processes, order, proc, nextPid, stack, exc, phase, last,
                   delivered, sigCount, sigSnap, sessions, clock, srvlog,
                   httpReady, driver>>
    /\ UNCHANGED fn

\* lines 208 and 217: if response.status_code == 200: return True
ProbeOkAnyStatus(r) == r # "error"
ProbeOk(r) == r = "200"

\* the probe without `except requests.RequestException: pass`
wait_for_ready_probe_raises(pc, nextPc) ==
    /\ wfr.pc = pc
    /\ \E r \in ProbeOutcomes, d \in 0..ProbeTimeout :
          /\ clock' = clock + d
          /\ wfr' = IF ProbeOk(r)
                    THEN [Complete("True", clock + d)
                              EXCEPT !.resp = r, !.probes = 1]
                    ELSE IF r = "error"
                    THEN [Complete("RequestException", clock + d)
                              EXCEPT !.resp = r, !.probes = 1]
                    ELSE [wfr EXCEPT !.pc = nextPc, !.resp = r, !.probes = 1]
    /\ UNCHANGED <<processes, order, proc, nextPid, stack, exc, phase, last,
                   delivered, sigCount, sigSnap, sessions, srvlog,
                   httpReady, driver>>
    /\ UNCHANGED fn

\* lines 206-212 (/health, at L207) and 215-221 (/v1/models, at L216): the
\* request takes up to its timeout; anything but a 200 leads on
wait_for_ready_probe(pc, nextPc) ==
    /\ wfr.pc = pc
    /\ \E r \in ProbeOutcomes, d \in 0..ProbeTimeout :
          /\ clock' = clock + d
          /\ wfr' = IF ProbeOk(r)
                    THEN [Complete("True", clock + d)
                              EXCEPT !.resp = r, !.probes = 1]
                    ELSE [wfr EXCEPT !.pc = nextPc, !.resp = r, !.probes = 1]
    /\ UNCHANGED <<processes, order, proc, nextPid, stack, exc, phase, last,
                   delivered, sigCount, sigSnap, sessions, srvlog,
                   httpReady, driver>>
    /\ UNCHANGED fn

\* the sleep that also interrupts the server: SIGINT to its process group
wait_for_ready_sleep_signals ==
    /\ wfr.pc = "L223"
    /\ clock' = clock + wfr.check_interval
    /\ wfr' = [wfr EXCEPT !.pc = "L177"]
    /\ delivered' = [delivered EXCEPT ![1]["SIGINT"] = 1]
    /\ UNCHANGED <<processes, order, proc, nextPid, stack, exc, phase, last,
                   sigCount, sigSnap, sessions, srvlog,
                   httpReady, driver>>
    /\ UNCHANGED fn

\* line 223: time.sleep(check_interval)
wait_for_ready_sleep ==
    /\ wfr.pc = "L223"
    /\ clock' = clock + wfr.check_interval
    /\ wfr' = [wfr EXCEPT !.pc = "L177"]
    /\ UNCHANGED <<processes, order, proc, nextPid, stack, exc, phase, last,
                   delivered, sigCount, sigSnap, sessions, srvlog,
                   httpReady, driver>>
    /\ UNCHANGED fn

\* ---- the drivers: BenchmarkRunner.run_variant, EvalRunner.run_evaluation ----
\* `if not server.wait_for_ready(timeout=600): ... return`
ProceedsOnAnyReturn(result) == result \in {"True", "False"}
ProceedsToWorkload(result) == result = "True"

\* the wait_for_ready call is over: go on to the client commands, return, or
\* let the exception leave (run_evaluation catches it and returns 1)
driver_after_wait ==
    /\ driver.pc = "wait"
    /\ wfr.pc = "done"
    /\ driver' = [driver EXCEPT !.pc =
                     IF ProceedsToWorkload(wfr.result) THEN "workload"
                     ELSE IF wfr.result = "False" THEN "returned"
                     ELSE IF driver.kind = "run_evaluation" THEN "returned"
                     ELSE "raised"]
    /\ UNCHANGED <<processes, order, proc, nextPid, stack, exc, phase, last,
                   delivered, sigCount, sigSnap, sessions, clock, srvlog,
                   httpReady, wfr>>
    /\ UNCHANGED fn

\* one client command: run_client_for_rate for the next rate, or lm_eval
driver_client ==
    /\ driver.pc = "workload"
    /\ driver.todo > 0
    /\ driver' = [driver EXCEPT !.clients = @ + 1, !.todo = @ - 1]
    /\ UNCHANGED <<processes, order, proc, nextPid, stack, exc, phase, last,
                   delivered, sigCount, sigSnap, sessions, clock, srvlog,
                   httpReady, wfr>>
    /\ UNCHANGED fn

\* the workload is done
driver_return ==
    /\ driver.pc = "workload"
    /\ driver.todo = 0
    /\ driver' = [driver EXCEPT !.pc = "returned"]
    /\ UNCHANGED <<processes, order, proc, nextPid, stack, exc, phase, last,
                   delivered, sigCount, sigSnap, sessions, clock, srvlog,
                   httpReady, wfr>>
    /\ UNCHANGED fn

NextWait ==
    \/ wait_for_ready_call
    \/ wait_for_ready_while
    \/ wait_for_ready_alive
    \/ wait_for_ready_scan
    \/ wait_for_ready_probe("L207", "L216")
    \/ wait_for_ready_probe("L216", "L223")
    \/ wait_for_ready_sleep
    \/ driver_after_wait
    \/ driver_client
    \/ driver_return
    \/ \E line \in LogLines : LogWrite(line)
    \/ ServerReady
    \/ \E p \in Pids : ChildExit(p)

SpecWait == InitWait /\ [][NextWait]_vars

\* ---------------------------------------------------------------------
\* VLLMServer.start / stop / __enter__ / __exit__ over the shared
\* ProcessManager (python/vllm_test_infra/server.py)
\* ---------------------------------------------------------------------
\* the process held in self._server_process is still running
SessionLive(s) == sessions[s].proc # 0 /\ Running(sessions[s].proc)

\* the main flow, or the body of `with server:`, is about to call a method
ServerIdle(s) ==
    /\ phase = "running"
    /\ exc = "none"
    /\ \/ stack = <<>>
       \/ Len(stack) = 1 /\ Top.kind = "with" /\ Top.pc = "body" /\ Top.name = s

start_call(s, launch) ==
    /\ ServerIdle(s)
    /\ stack' = Append(stack,
                   [NewFrame("start", "L137", s) EXCEPT !.arg = launch])
    /\ last' = NoCall
    /\ UNCHANGED <<processes, order, proc, nextPid, exc, phase,
                   delivered, sigCount, sigSnap>>
    /\ UNCHANGED srvVars

\* start() without the running-server test
start_check_skipped ==
    /\ At("start", "L137")
    /\ stack' = SetTop([Top EXCEPT !.pc = "L142",
                                   !.alive = SessionLive(Top.name),
                                   !.live = {q \in Pids : Running(q)}])
    /\ UNCHANGED <<processes, order, proc, nextPid, exc, phase, last,
                   delivered, sigCount, sigSnap>>
    /\ UNCHANGED srvVars

\* lines 137-138: if self._server_process and
\* self.process_manager.is_running("vllm_server"): raise VLLMServerError
start_check ==
    /\ At("start", "L137")
    /\ LET p == processes[ServerName]
           held == sessions[Top.name].proc # 0
           seen == [Top EXCEPT !.alive = SessionLive(Top.name),
                               !.live = {q \in Pids : Running(q)}]
       IN  IF held /\ p # 0 /\ Running(p)
           THEN /\ exc' = "VLLMServerError"
                /\ stack' = SetTop(seen)
                /\ UNCHANGED <<proc, delivered, sigSnap>>
           ELSE /\ stack' = SetTop([seen EXCEPT !.pc = "L142"])
                /\ IF held /\ p # 0 /\ proc[p] = "zombie" THEN Reap(p)
                   ELSE UNCHANGED <<proc, delivered, sigSnap>>
                /\ UNCHANGED exc
    /\ UNCHANGED <<processes, order, nextPid, phase, last, sigCount>>
    /\ UNCHANGED srvVars

\* lines 141-143: self._server_args = args; self._extra_env = env_dict
start_remember ==
    /\ At("start", "L142")
    /\ sessions' = [sessions EXCEPT ![Top.name].args = Top.arg[1],
                                    ![Top.name].env = parse_env_csv(Top.arg[2])]
    /\ stack' = SetTop([Top EXCEPT !.pc = "L150"])
    /\ UNCHANGED <<processes, order, proc, nextPid, exc, phase, last,
                   delivered, sigCount, sigSnap, clock, srvlog, httpReady,
                   wfr, driver>>
    /\ UNCHANGED fn

\* lines 150-155: self.process_manager.run_background(name="vllm_server", ...)
start_run_background ==
    /\ At("start", "L150")
    /\ nextPid <= MaxPid
    /\ stack' = Append(SetTop([Top EXCEPT !.pc = "L150r"]),
                   [NewFrame("run_background", "L144", ServerName) EXCEPT
                       !.alive = ServerAlive])
    /\ UNCHANGED <<processes, order, proc, nextPid, exc, phase, last,
                   delivered, sigCount, sigSnap>>
    /\ UNCHANGED srvVars

\* line 150: self._server_process = <the Popen returned>
start_assign ==
    /\ At("start", "L150r")
    /\ sessions' = [sessions EXCEPT ![Top.name].proc = last.pid]
    /\ stack' = Pop
    /\ last' = [Rec(Top, "None", processes) EXCEPT
                   !.pid = last.pid, !.sessAfter = sessions']
    /\ UNCHANGED <<processes, order, proc, nextPid, exc, phase,
                   delivered, sigCount, sigSnap, clock, srvlog, httpReady,
                   wfr, driver>>
    /\ UNCHANGED fn

stop_call(s) ==
    /\ ServerIdle(s)
    /\ stack' = Append(stack, [NewFrame("stop", "L230", s) EXCEPT
                                  !.again = Again("stop", s)])
    /\ last' = NoCall
    /\ UNCHANGED <<processes, order, proc, nextPid, exc, phase,
                   delivered, sigCount, sigSnap>>
    /\ UNCHANGED srvVars

\* lines 230-233: if not self._server_process: return; then
\* self.process_manager.terminate("vllm_server")
stop_terminate ==
    /\ At("stop", "L230")
    /\ IF sessions[Top.name].proc = 0
          THEN Return(Top, "None", processes)
          ELSE /\ stack' = Append(SetTop([Top EXCEPT !.pc = "L234",
                                                     !.ran = {ServerName}]),
                              NewFrame("terminate", "L184", ServerName))
               /\ UNCHANGED last
    /\ UNCHANGED <<processes, order, proc, nextPid, exc, phase,
                   delivered, sigCount, sigSnap>>
    /\ UNCHANGED srvVars

\* line 234: self._server_process = None
stop_clear ==
    /\ At("stop", "L234")
    /\ sessions' = [sessions EXCEPT ![Top.name].proc = 0]
    /\ stack' = Pop
    /\ last' = [Rec([Top EXCEPT !.trace = last.trace], "None", processes)
                   EXCEPT !.sessAfter = sessions']
    /\ UNCHANGED <<processes, order, proc, nextPid, exc, phase,
                   delivered, sigCount, sigSnap, clock, srvlog, httpReady,
                   wfr, driver>>
    /\ UNCHANGED fn

\* `with server:` -- __enter__ returns self (lines 261-263)
with_enter(s) ==
    /\ MainIdle
    /\ stack' = <<NewFrame("with", "body", s)>>
    /\ last' = NoCall
    /\ UNCHANGED <<processes, order, proc, nextPid, exc, phase,
                   delivered, sigCount, sigSnap>>
    /\ UNCHANGED srvVars

\* the body raises, or is interrupted
with_body_raises ==
    /\ At("with", "body")
    /\ \E e \in {"VLLMServerError", "KeyboardInterrupt"} : exc' = e
    /\ UNCHANGED <<processes, order, proc, nextPid, stack, phase, last,
                   delivered, sigCount, sigSnap>>
    /\ UNCHANGED srvVars

\* the body runs to its end
with_body_done ==
    /\ At("with", "body")
    /\ stack' = SetTop([Top EXCEPT !.pc = "exit"])
    /\ UNCHANGED <<processes, order, proc, nextPid, exc, phase, last,
                   delivered, sigCount, sigSnap>>
    /\ UNCHANGED srvVars

\* lines 265-267: __exit__ calls self.stop()
with_exit ==
    /\ At("with", "exit")
    /\ stack' = Append(SetTop([Top EXCEPT !.pc = "L268", !.calls = @ + 1]),
                       NewFrame("stop", "L230", Top.name))
    /\ UNCHANGED <<processes, order, proc, nextPid, exc, phase, last,
                   delivered, sigCount, sigSnap>>
    /\ UNCHANGED srvVars

\* line 268: return False -- the exception of the body goes on
with_leave ==
    /\ At("with", "L268")
    /\ stack' = Pop
    /\ exc' = Top.held
    /\ last' = Rec(Top, Top.held, processes)
    /\ UNCHANGED <<processes, order, proc, nextPid, phase,
                   delivered, sigCount, sigSnap>>
    /\ UNCHANGED srvVars

NextSrv ==
    \/ \E s \in Sessions, l \in Launches : start_call(s, l)
    \/ \E s \in Sessions : stop_call(s)
    \/ \E s \in Sessions : with_enter(s)
    \/ start_check
    \/ start_remember
    \/ start_run_background
    \/ start_assign
    \/ stop_terminate
    \/ stop_clear
    \/ with_body_raises
    \/ with_body_done
    \/ with_exit
    \/ with_leave
    \/ run_background_popen
    \/ run_background_register
    \/ terminate_lookup
    \/ terminate_fetch
    \/ terminate_poll
    \/ terminate_del_dead
    \/ \E i \in 1..3 : terminate_kill(i)
    \/ \E i \in 1..3 : terminate_wait(i)
    \/ \E i \in 1..3 : terminate_del(i)
    \/ main_catches
    \/ main_dies
    \/ main_exit
    \/ terminate_all_snapshot
    \/ terminate_all_loop
    \/ terminate_all_sleep
    \/ cleanup_on_exit_terminate
    \/ cleanup_zombie_processes
    \/ Unwind
    \/ \E p \in Pids : ChildExit(p)

SpecSrv == Init /\ [][NextSrv]_vars

\* the session methods alone: start and stop called from the main flow, which
\* catches what they raise
NextSess ==
    \/ \E s \in Sessions, l \in Launches : start_call(s, l)
    \/ \E s \in Sessions : stop_call(s)
    \/ start_check
    \/ start_remember
    \/ start_run_background
    \/ start_assign
    \/ stop_terminate
    \/ stop_clear
    \/ run_background_popen
    \/ run_background_register
    \/ terminate_lookup
    \/ terminate_fetch
    \/ terminate_poll
    \/ terminate_del_dead
    \/ \E i \in 1..3 : terminate_kill(i)
    \/ \E i \in 1..3 : terminate_wait(i)
    \/ \E i \in 1..3 : terminate_del(i)
    \/ main_catches
    \/ Unwind
    \/ \E p \in Pids : ChildExit(p)

SpecSess == Init /\ [][NextSess]_vars

\* ---------------------------------------------------------------------
\* properties
\* ---------------------------------------------------------------------
RegNames(reg) == {n \in Names : reg[n] # 0}
KillsOf(tr) == SelectSeq(tr, LAMBDA e : e.ev = "kill")

\* C1: run_background(name) called while the process registered under name
\* is alive fails, starts no second process, and leaves the registry entry
\* on the first process.
C1_RegistryExclusivity ==
    (last.kind = "run_background" /\ last.alive) =>
        /\ last.result # "Popen"
        /\ last.pid = 0
        /\ last.regAfter[last.name] = last.regBefore[last.name]

\* C2: when terminate(name) on a registered name finishes, name is no
\* longer in the registry, whatever the child did.
C2_TerminateRemovesName ==
    (last.kind = "terminate" /\ last.regBefore[last.name] # 0) =>
        last.regAfter[last.name] = 0

\* C3: terminate on a live child that the signals reach and that does not
\* exit at the interrupt and terminate stages sends SIGINT, waits 5 s, sends
\* SIGTERM, waits 3 s, sends SIGKILL and waits 2 s: three signals, in that
\* order, none twice and none skipped.
C3_EscalationOrder ==
    (/\ last.kind = "terminate"
     /\ ~last.intr
     /\ last.trace # <<>>
     /\ \A i \in DOMAIN last.trace :
            LET e == last.trace[i]
            IN  /\ e.ev = "kill" => e.res = "ok"
                /\ (e.ev = "wait" /\ e.secs \in {WaitInt, WaitTerm})
                       => e.res = "timeout")
    => /\ Len(last.trace) = 6
       /\ [i \in 1..5 |-> last.trace[i]] =
              <<KillEv("SIGINT", "ok"), WaitEv(5, "timeout"),
                KillEv("SIGTERM", "ok"), WaitEv(3, "timeout"),
                KillEv("SIGKILL", "ok")>>
       /\ last.trace[6].ev = "wait" /\ last.trace[6].secs = 2

C3_Witness ==
    /\ last.kind = "terminate"
    /\ ~last.intr
    /\ Len(last.trace) = 6
    /\ [i \in 1..3 |-> KillsOf(last.trace)[i].sig] = StageSignals
    /\ \A i \in 1..3 : KillsOf(last.trace)[i].res = "ok"
    /\ last.trace[2].res = "timeout" /\ last.trace[4].res = "timeout"

\* C4: a terminate(name) that directly follows a terminate(name) returns
\* False, sends no signal, leaves the registry as it was and raises nothing.
C4_IdempotentTerminate ==
    (last.kind = "terminate" /\ last.again /\ ~last.intr) =>
        /\ last.result = "False"
        /\ last.trace = <<>>
        /\ last.regAfter = last.regBefore

\* C5: when a signal handler runs while the main flow is inside
\* terminate(name), no invocation raises a registry error (KeyError) and the
\* interrupted terminate ends with name removed.
C5_SignalSafeTerminate ==
    /\ exc # "KeyError"
    /\ (last.kind = "terminate" /\ last.intr) => last.regAfter[last.name] = 0

\* C6: when a handler interrupts terminate for a name and terminates the
\* same process, each stage signal reaches that process group at most once
\* in total.
C6_NoDoubleTerminate ==
    \A i \in DOMAIN stack :
        (stack[i].kind = "terminate" /\ stack[i].intr /\ stack[i].pid # 0) =>
            \A sig \in Signals : delivered[stack[i].pid][sig] <= 1

\* C7: terminate(name) returns True or False for every outcome of
\* signalling and waiting; no exception reaches its caller.
C7_TerminateNeverRaises ==
    (last.kind = "terminate" /\ ~last.intr) => last.result \in {"True", "False"}

\* C8: terminate_all raises nothing on any invocation, and an invocation
\* that directly follows another finds the registry empty and terminates
\* nothing.
C8_TerminateAllRepeatable ==
    (last.kind = "terminate_all" /\ ~last.intr) =>
        /\ last.result = "None"
        /\ last.again => (RegNames(last.regBefore) = {} /\ last.ran = {})

\* C9: one terminate_all runs terminate for every registered name and
\* leaves no name registered.
C9_TerminateAllCoversAll ==
    (last.kind = "terminate_all" /\ ~last.intr) =>
        /\ last.ran = RegNames(last.regBefore)
        /\ RegNames(last.regAfter) = {}

\* C10: when the supervisor has exited after receiving SIGINT or SIGTERM,
\* every process that was registered when the signal arrived has exited or
\* was escalated up to SIGKILL (or the OS refused to let it be signalled).
C10_Cancellation ==
    phase = "exited" =>
        \A p \in sigSnap :
            \/ ~Running(p)
            \/ delivered[p]["SIGKILL"] > 0
            \/ proc[p] = "denied"

\* ---------------------------------------------------------------------
\* properties of wait_for_ready and the drivers
\* ---------------------------------------------------------------------
VLLMServerErrors == {"VLLMServerError: died", "VLLMServerError: fatal"}
WfrDone == wfr.result # "none"

\* C11 (as claimed): with a log sink attached, a fatal line written to the
\* server log before the first time a probe would return 200 makes
\* wait_for_ready fail with VLLMServerError; it never returns True (nor
\* False after waiting out the timeout).
C11_FatalBeforeReady ==
    (WfrDone /\ wfr.has_log /\ wfr.fatalFirst) =>
        wfr.result \in VLLMServerErrors

\* C11 (amended): a log scan that finds a fatal line raises VLLMServerError
\* at once; a fatal line already in the log when wait_for_ready is called
\* with a log sink and a timeout of at least one second fails the call in
\* its first iteration, before any probe and before any waiting.
C11_FatalAtScan ==
    /\ wfr.scanSaw => wfr.result = "VLLMServerError: fatal"
    /\ (WfrDone /\ wfr.has_log /\ wfr.fatalCall /\ wfr.timeout >= 1) =>
          /\ wfr.result \in VLLMServerErrors
          /\ wfr.doneAt = wfr.start_time
          /\ wfr.probes = 0

C11_Witness ==
    /\ wfr.result = "VLLMServerError: fatal"
    /\ wfr.fatalCall
    /\ wfr.aliveCall
    /\ wfr.timeout >= 1

\* C12 (as claimed): a server process that is dead when wait_for_ready is
\* called, or dies during the call before a probe returned 200, makes the
\* call fail with VLLMServerError for every timeout; it returns neither
\* True nor False.
C12_DeadAlwaysFatal ==
    (WfrDone /\ ~wfr.aliveEnd /\ wfr.resp # "200") =>
        wfr.result \in VLLMServerErrors

\* C12 (amended): a liveness check that finds the server process dead raises
\* VLLMServerError and the loop does not go on; a process that is dead when
\* wait_for_ready is called with a timeout of at least one second fails the
\* call in its first iteration, before any probe and before any waiting.
C12_DeadAtCheckIsFatal ==
    /\ wfr.checkDead => wfr.result = "VLLMServerError: died"
    /\ (WfrDone /\ ~wfr.aliveCall /\ wfr.timeout >= 1) =>
          /\ wfr.result = "VLLMServerError: died"
          /\ wfr.doneAt = wfr.start_time
          /\ wfr.probes = 0

C12_Witness ==
    /\ wfr.result = "VLLMServerError: died"
    /\ wfr.aliveCall
    /\ wfr.probes = 1

\* C13: when the server process stays alive, the log never holds a fatal
\* line and no probe returns 200, wait_for_ready returns False and raises
\* nothing.
C13_TimeoutReturnsFalse ==
    (WfrDone /\ wfr.aliveEnd /\ ~wfr.fatalEnd /\ wfr.resp # "200") =>
        wfr.result = "False"

C13_Witness ==
    /\ wfr.result = "False"
    /\ wfr.aliveEnd
    /\ ~wfr.fatalEnd
    /\ wfr.resp \in {"error", "503"}
    /\ wfr.has_log

\* C14 (as claimed): a wait_for_ready(timeout=T, check_interval=p) that
\* returns False returns no later than T + p seconds after it was called.
C14_ReturnsWithinTimeoutPlusInterval ==
    wfr.result = "False" =>
        wfr.doneAt - wfr.start_time <= wfr.timeout + wfr.check_interval

\* C14 (amended): it returns False earlier than T + p + 2 * 2 seconds after
\* it was called: the last iteration starts before T and takes its two
\* probes, of up to 2 seconds each, and one sleep of p.
C14_ReturnsWithinProbesAndInterval ==
    wfr.result = "False" =>
        wfr.doneAt - wfr.start_time <
            wfr.timeout + wfr.check_interval + 2 * ProbeTimeout

C14_Witness ==
    /\ wfr.result = "False"
    /\ wfr.doneAt - wfr.start_time > wfr.timeout + wfr.check_interval

\* C15: wait_for_ready returns True only when a probe of this call returned
\* HTTP 200; a transport error or another status is not reported as ready
\* and raises nothing.
C15_ReadyOnlyOn200 ==
    /\ wfr.result = "True" => wfr.resp = "200"
    /\ WfrDone => wfr.result \in {"True", "False"} \cup VLLMServerErrors

C15_Witness ==
    /\ wfr.result = "True"
    /\ wfr.resp = "200"
    /\ wfr.doneAt > wfr.start_time

\* C20: the drivers issue a client command for a server start only after
\* that start's wait_for_ready returned True.
C20_ReadyBeforeWorkload ==
    /\ driver.clients > 0 => wfr.result = "True"
    /\ (WfrDone /\ wfr.result # "True") => driver.pc # "workload"

C20_Witness ==
    /\ driver.clients > 0
    /\ wfr.result = "True"

\* ---------------------------------------------------------------------
\* properties of the VLLMServer session
\* ---------------------------------------------------------------------
\* C16: start() on a session whose server process was started and is still
\* alive fails with VLLMServerError, starts no process, and leaves the
\* registry and the remembered launch arguments and environment as they were.
C16_StartWhileRunningFails ==
    /\ (last.kind = "start" /\ last.alive) =>
          /\ last.result = "VLLMServerError"
          /\ last.pid = 0
          /\ last.regAfter = last.regBefore
          /\ last.sessAfter[last.name] = last.sessBefore[last.name]
    /\ \A i \in 1..Len(stack) :
          (stack[i].kind = "start" /\ stack[i].alive) => stack[i].pc = "L137"

\* C17: with two VLLMServer objects on one ProcessManager, start() on one
\* while the server process of the other is alive puts no second live
\* server process under "vllm_server".
C17_SessionUniqueness ==
    (/\ last.kind = "start"
     /\ \E s \in Sessions \ {last.name} :
           /\ last.sessBefore[s].proc \in last.live
           /\ Running(last.sessBefore[s].proc)) =>
        ~(/\ last.pid # 0
          /\ Running(last.pid)
          /\ last.regAfter[ServerName] = last.pid)

\* C18: leaving `with server:`, normally or by an exception, calls stop()
\* exactly once, lets the exception of the body go on, and leaves the
\* session without a server process.
C18_ScopedRelease ==
    last.kind = "with" =>
        /\ last.calls = 1
        /\ last.result = last.held
        /\ last.sessAfter[last.name].proc = 0

\* C19: stop() on a session that holds no process sends no signal, changes
\* nothing and raises nothing; on a started session it terminates
\* "vllm_server"; it leaves the session stopped from every prior state, and
\* a second stop() in a row changes nothing more.
C19_StopIdempotent ==
    last.kind = "stop" =>
        /\ last.result = "None"
        /\ last.sessAfter[last.name].proc = 0
        /\ last.sessBefore[last.name].proc # 0 => last.ran = {ServerName}
        /\ (last.sessBefore[last.name].proc = 0 \/ last.again) =>
              /\ last.trace = <<>>
              /\ last.regAfter = last.regBefore
              /\ last.sessAfter = last.sessBefore

\* the start() recorded in f went past its running-server test
StartWentOn(f) == f.kind = "start" /\ f.pc # "L137"
\* the session of f held a process from an earlier start() with no completed
\* stop() since
HeldBefore(f) == f.sessBefore[f.name].proc # 0
\* the process registered under "vllm_server" was running at the test
RegistryLiveAtTest(f) == f.regBefore[ServerName] \in f.live

\* C21 (as claimed): on one session a start() that follows an earlier start()
\* succeeds only if stop() was the last lifecycle operation in between; after
\* the server process died on its own, with no stop(), it launches nothing.
C21_StopBeforeRestart ==
    /\ (last.kind = "start" /\ last.result = "None") =>
          last.sessBefore[last.name].proc = 0
    /\ \A i \in 1..Len(stack) :
          StartWentOn(stack[i]) => ~HeldBefore(stack[i])

\* C21 (amended): a start() that follows an earlier start() with no stop() in
\* between goes on to launch a server only if the process registered under
\* "vllm_server" is no longer running; while it runs, start() raises
\* VLLMServerError.
C21_RestartNeedsStopOrDeath ==
    /\ (last.kind = "start" /\ last.result = "None") =>
          (last.sessBefore[last.name].proc = 0 \/ ~RegistryLiveAtTest(last))
    /\ (last.kind = "start" /\ last.sessBefore[last.name].proc # 0
            /\ RegistryLiveAtTest(last)) =>
          last.result = "VLLMServerError"
    /\ \A i \in 1..Len(stack) :
          (StartWentOn(stack[i]) /\ HeldBefore(stack[i])) =>
              ~RegistryLiveAtTest(stack[i])

C21_Witness ==
    /\ last.kind = "start"
    /\ last.result = "None"
    /\ last.sessBefore[last.name].proc # 0
    /\ ~RegistryLiveAtTest(last)

\* C22: between calls, every live process started by run_background is the
\* registry entry of its name: no sequence of run_background, terminate and
\* terminate_all leaves a live started process outside the registry.
C22_LiveProcessesRegistered ==
    MainIdle => \A p \in Pids : Running(p) => p \in RegisteredPids

\* ---------------------------------------------------------------------------
\* VLLMServer._build_command: the launch command and its reservation prefix.
\* A launch-argument string is the sequence of its whitespace-separated words.
\* ---------------------------------------------------------------------------

MaxArgs == 4

TpFlags == {"-tp", "--tensor-parallel-size"}
DpFlags == {"-dp", "--data-parallel-size"}
Digits == <<"0", "1", "2", "3", "4", "5", "6", "7", "8", "9">>
ArgWords == TpFlags \cup DpFlags \cup {"0", "1", "2", "--x"}

int(word) == CHOOSE n \in 0..9 : Digits[n + 1] = word

str(n) == Digits[n + 1]

IsNumber(word) == \E n \in 0..9 : Digits[n + 1] = word

\* re.search(r'(?:flag)\s+(\d+)', args): the leftmost flag followed by a number
FlagMatches(flags, args) ==
    {i \in 1..(Len(args) - 1) : args[i] \in flags /\ IsNumber(args[i + 1])}

FlagValue(flags, args) ==
    IF FlagMatches(flags, args) = {} THEN None
    ELSE LET i == CHOOSE j \in FlagMatches(flags, args) :
                      \A k \in FlagMatches(flags, args) : j <= k
         IN  int(args[i + 1])

extract_tp_dp_from_args(args) ==
    [tp_size |-> FlagValue(TpFlags, args), dp_size |-> FlagValue(DpFlags, args)]

\* "x or 1": None and 0 both count as 1
OrOne(x) == IF x = None \/ x = 0 THEN 1 ELSE x

compute_gpu_count(tp_size, dp_size) == OrOne(tp_size) * OrOne(dp_size)

split_args_string(args) == args

BaseCommand(args) ==
    <<"vllm", "serve", "model", "--host", "host", "--port", "port">>
        \o split_args_string(args)

ChgPrefix(gpu_count) == <<"chg", "run", "-g", str(gpu_count), "--">>

build_command_prefix_unchecked(args, chg) ==
    LET sizes == extract_tp_dp_from_args(args)
        gpu_count == compute_gpu_count(sizes.tp_size, sizes.dp_size)
    IN  IF gpu_count > 1 \/ (gpu_count = 1 /\ chg)
        THEN ChgPrefix(gpu_count) \o BaseCommand(args)
        ELSE BaseCommand(args)

_build_command(args, chg) ==
    LET sizes == extract_tp_dp_from_args(args)
        gpu_count == compute_gpu_count(sizes.tp_size, sizes.dp_size)
    IN  IF gpu_count > 1 \/ (gpu_count = 1 /\ chg)
        THEN IF chg
             THEN ChgPrefix(gpu_count) \o BaseCommand(args)
             ELSE BaseCommand(args)
        ELSE BaseCommand(args)

ArgStrings == UNION {[1..n -> ArgWords] : n \in 0..MaxArgs}

InitCmd ==
    /\ InitSupervisor
    /\ \E args \in ArgStrings, chg \in BOOLEAN :
          fn = [op |-> "_build_command", in |-> [args |-> args, chg |-> chg],
                done |-> FALSE, out |-> <<>>]

build_command_call ==
    /\ fn.op = "_build_command"
    /\ ~fn.done
    /\ fn' = [fn EXCEPT !.done = TRUE,
                        !.out = _build_command(fn.in.args, fn.in.chg)]
    /\ UNCHANGED <<processes, order, proc, nextPid, stack, exc, phase, last,
                   delivered, sigCount, sigSnap, sessions, clock, srvlog,
                   httpReady, wfr, driver>>

NextCmd == build_command_call

SpecCmd == InitCmd /\ [][NextCmd]_vars

Built == fn.op = "_build_command" /\ fn.done

\* the degree written after a flag, 1 when the flag is absent
Degree(flags, args) ==
    IF FlagValue(flags, args) = None THEN 1 ELSE FlagValue(flags, args)

Units(args) == Degree(TpFlags, args) * Degree(DpFlags, args)

\* the degree with 0 counted as 1, as compute_gpu_count reads it
UnitsRequested(args) == OrOne(FlagValue(TpFlags, args)) * OrOne(FlagValue(DpFlags, args))

\* C23 (as stated): the command is prefixed with the reservation invocation
\* requesting N = tp x dp units exactly when N > 1, or N = 1 and the tool is
\* available; otherwise it is the unprefixed command.
C23_PrefixWhenNeeded ==
    Built =>
        LET N == Units(fn.in.args)
        IN  IF N > 1 \/ (N = 1 /\ fn.in.chg)
            THEN fn.out = ChgPrefix(N) \o BaseCommand(fn.in.args)
            ELSE fn.out = BaseCommand(fn.in.args)

\* C23 (amended): the command is prefixed with the reservation invocation
\* exactly when the tool is available, and then requests N units, N being
\* tp x dp with an absent or zero degree counted as 1; without the tool the
\* command is unprefixed whatever N is.
C23_PrefixWhenAvailable ==
    Built =>
        IF fn.in.chg
        THEN fn.out = ChgPrefix(UnitsRequested(fn.in.args)) \o BaseCommand(fn.in.args)
        ELSE fn.out = BaseCommand(fn.in.args)

C23_Witness ==
    /\ Built
    /\ ~fn.in.chg
    /\ UnitsRequested(fn.in.args) > 1
    /\ fn.out = BaseCommand(fn.in.args)

\* ---------------------------------------------------------------------------
\* BaseBenchmarkRunner.run_branch: checkout, pull and build before the
\* variants of a branch are run (each variant launches a server).
\* ---------------------------------------------------------------------------

MaxVariants == 2

BranchStart == [pc |-> "L314", steps |-> <<>>, launches |-> 0, raised |-> "none"]

InitBranch ==
    /\ InitSupervisor
    /\ \E pull \in BOOLEAN, build \in BOOLEAN, is_hash \in BOOLEAN,
          variants \in 0..MaxVariants :
          fn = [op |-> "run_branch",
                in |-> [pull |-> pull, build |-> build, is_hash |-> is_hash,
                        variants |-> variants],
                done |-> FALSE, out |-> BranchStart]

BranchAt(pc) == fn.op = "run_branch" /\ ~fn.done /\ fn.out.pc = pc

BranchStep(step, outcome, pc) ==
    fn' = [fn EXCEPT !.out.steps = Append(@, <<step, outcome>>), !.out.pc = pc]

BranchRaises(step, error) ==
    fn' = [fn EXCEPT !.out.steps = Append(@, <<step, "failed">>),
                     !.out.pc = "raised", !.out.raised = error, !.done = TRUE]

supervisorVars == <<processes, order, proc, nextPid, stack, exc, phase, last,
                    delivered, sigCount, sigSnap, sessions, clock, srvlog,
                    httpReady, wfr, driver>>

\* git.py 64-79: _run_git raises GitError on a non-zero exit
run_branch_checkout ==
    /\ BranchAt("L314")
    /\ \/ BranchStep("checkout", "ok", "L317")
       \/ BranchRaises("checkout", "GitError")
    /\ UNCHANGED supervisorVars

\* git.py 81-107: a commit hash is not pulled; a failed pull is caught inside
\* pull(), which warns and returns False; run_branch drops the value
run_branch_pull ==
    /\ BranchAt("L317")
    /\ IF ~fn.in.pull THEN fn' = [fn EXCEPT !.out.pc = "L321"]
       ELSE IF fn.in.is_hash THEN BranchStep("pull", "skipped", "L321")
       ELSE \/ BranchStep("pull", "ok", "L321")
            \/ BranchStep("pull", "failed", "L321")
    /\ UNCHANGED supervisorVars

run_branch_build_warns ==
    /\ BranchAt("L321")
    /\ IF ~fn.in.build THEN fn' = [fn EXCEPT !.out.pc = "L325"]
       ELSE \/ BranchStep("build", "ok", "L325")
            \/ BranchStep("build", "failed", "L325")
    /\ UNCHANGED supervisorVars

\* git.py 109-142: build raises GitError on a non-zero exit
run_branch_build ==
    /\ BranchAt("L321")
    /\ IF ~fn.in.build THEN fn' = [fn EXCEPT !.out.pc = "L325"]
       ELSE \/ BranchStep("build", "ok", "L325")
            \/ BranchRaises("build", "GitError")
    /\ UNCHANGED supervisorVars

\* one run_variant: skipped when its results exist, else server.start is
\* called inside the with block; an error of the variant leaves the loop
run_branch_variant ==
    /\ BranchAt("L325")
    /\ Len(SelectSeq(fn.out.steps, LAMBDA e : e[1] = "variant")) < fn.in.variants
    /\ \/ BranchStep("variant", "skipped", "L325")
       \/ fn' = [fn EXCEPT !.out.steps = Append(@, <<"variant", "ok">>),
                           !.out.launches = @ + 1]
       \/ fn' = [fn EXCEPT !.out.steps = Append(@, <<"variant", "failed">>),
                           !.out.launches = @ + 1, !.out.pc = "raised",
                           !.out.raised = "VLLMServerError", !.done = TRUE]
    /\ UNCHANGED supervisorVars

run_branch_return ==
    /\ BranchAt("L325")
    /\ Len(SelectSeq(fn.out.steps, LAMBDA e : e[1] = "variant")) = fn.in.variants
    /\ fn' = [fn EXCEPT !.out.pc = "returned", !.done = TRUE]
    /\ UNCHANGED supervisorVars

NextBranch ==
    \/ run_branch_checkout
    \/ run_branch_pull
    \/ run_branch_build
    \/ run_branch_variant
    \/ run_branch_return

SpecBranch == InitBranch /\ [][NextBranch]_vars

StepFailed(step) ==
    /\ fn.op = "run_branch"
    /\ \E i \in 1..Len(fn.out.steps) : fn.out.steps[i] = <<step, "failed">>

StepOk(step) ==
    /\ fn.op = "run_branch"
    /\ \E i \in 1..Len(fn.out.steps) : fn.out.steps[i] = <<step, "ok">>

Launched == fn.op = "run_branch" /\ fn.out.launches > 0

\* C24 (as stated): a server is started for a branch only if checkout
\* succeeded and no requested pull or build failed; a failed checkout, pull
\* or build ends run_branch with an error and no launch follows it.
C24_GitStepsGateLaunch ==
    \A step \in {"checkout", "pull", "build"} :
        StepFailed(step) =>
            /\ ~Launched
            /\ fn.done
            /\ fn.out.raised = "GitError"

\* C24 (amended): a server is started only after checkout succeeded and the
\* requested build succeeded; a failed checkout or build ends run_branch with
\* GitError and no launch; a failed pull by itself does not end run_branch.
C24_CheckoutAndBuildGateLaunch ==
    /\ Launched => (StepOk("checkout") /\ (fn.in.build => StepOk("build")))
    /\ \A step \in {"checkout", "build"} :
          StepFailed(step) =>
              /\ ~Launched
              /\ fn.done
              /\ fn.out.raised = "GitError"
    /\ (fn.op = "run_branch" /\ fn.out.raised = "GitError") =>
          (StepFailed("checkout") \/ StepFailed("build"))

C24_Witness ==
    /\ Launched
    /\ StepFailed("pull")
    /\ StepOk("build")

\* ---------------------------------------------------------------------------
\* LogManager.search_file_for_patterns and LogManager.tail_file on a log file
\* given as the sequence of its lines. A line is its text and whether the
\* text is surrounded by whitespace; which patterns a text matches is fixed.
\* ---------------------------------------------------------------------------

MaxLines == 3
MaxPatterns == 2

Patterns == {"p1", "p2"}
Texts == {"t0", "t1", "t2", "t12"}
FileLines == [text : Texts, padded : BOOLEAN]

\* pattern_re.search(line)
Matches(pattern, line) ==
    \/ pattern = "p1" /\ line.text \in {"t1", "t12"}
    \/ pattern = "p2" /\ line.text \in {"t2", "t12"}

\* line.strip()
strip(line) == [line EXCEPT !.padded = FALSE]

NoMatch == <<>>

\* the inner loop: for pattern_str, pattern_re in compiled_patterns
RECURSIVE SearchLine(_, _, _)
SearchLine(line, patterns, j) ==
    IF j > Len(patterns) THEN NoMatch
    ELSE IF Matches(patterns[j], line) THEN <<patterns[j], strip(line)>>
    ELSE SearchLine(line, patterns, j + 1)

\* the outer loop with the patterns outermost
RECURSIVE SearchByPattern(_, _, _)
SearchByPattern(lines, patterns, j) ==
    IF j > Len(patterns) THEN NoMatch
    ELSE LET hits == {i \in 1..Len(lines) : Matches(patterns[j], lines[i])}
         IN  IF hits # {}
             THEN <<patterns[j], strip(lines[CHOOSE i \in hits : \A k \in hits : i <= k])>>
             ELSE SearchByPattern(lines, patterns, j + 1)

\* the outer loop: for line in f
RECURSIVE SearchFrom(_, _, _)
SearchFrom(lines, patterns, i) ==
    IF i > Len(lines) THEN NoMatch
    ELSE IF SearchLine(lines[i], patterns, 1) # NoMatch
         THEN SearchLine(lines[i], patterns, 1)
         ELSE SearchFrom(lines, patterns, i + 1)

search_patterns_outermost(exists, lines, patterns) ==
    IF ~exists THEN NoMatch ELSE SearchByPattern(lines, patterns, 1)

LogManager_search_file_for_patterns(exists, lines, patterns) ==
    IF ~exists THEN NoMatch ELSE SearchFrom(lines, patterns, 1)

\* lines[-num_lines:] of a list of L lines: -0 is 0, so num_lines = 0 slices
\* from the start; a start before the first line is clipped to it
SliceFromEnd(lines, num_lines) ==
    LET L == Len(lines)
        first == IF num_lines = 0 THEN 1
                 ELSE IF num_lines > L THEN 1
                 ELSE L - num_lines + 1
    IN  SubSeq(lines, first, L)

tail_file_unclipped(exists, lines, num_lines) ==
    IF ~exists THEN <<>>
    ELSE IF num_lines > Len(lines) THEN <<>>
    ELSE SliceFromEnd(lines, num_lines)

tail_file(exists, lines, num_lines) ==
    IF ~exists THEN <<>> ELSE SliceFromEnd(lines, num_lines)

Files == UNION {[1..n -> FileLines] : n \in 0..MaxLines}
PatternLists == UNION {[1..n -> Patterns] : n \in 0..MaxPatterns}

InitLog ==
    /\ InitSupervisor
    /\ \E exists \in BOOLEAN, lines \in Files :
          /\ ~exists => lines = <<>>
          /\ \/ \E patterns \in PatternLists :
                   fn = [op |-> "search_file_for_patterns",
                         in |-> [exists |-> exists, lines |-> lines,
                                 patterns |-> patterns, num_lines |-> 0],
                         done |-> FALSE, out |-> <<>>]
             \/ \E num_lines \in 0..(MaxLines + 1) :
                   fn = [op |-> "tail_file",
                         in |-> [exists |-> exists, lines |-> lines,
                                 patterns |-> <<>>, num_lines |-> num_lines],
                         done |-> FALSE, out |-> <<>>]

search_file_for_patterns_call ==
    /\ fn.op = "search_file_for_patterns"
    /\ ~fn.done
    /\ fn' = [fn EXCEPT !.done = TRUE,
                        !.out = LogManager_search_file_for_patterns(
                                    fn.in.exists, fn.in.lines, fn.in.patterns)]
    /\ UNCHANGED supervisorVars

tail_file_call ==
    /\ fn.op = "tail_file"
    /\ ~fn.done
    /\ fn' = [fn EXCEPT !.done = TRUE,
                        !.out = tail_file(fn.in.exists, fn.in.lines, fn.in.num_lines)]
    /\ UNCHANGED supervisorVars

NextLog ==
    \/ search_file_for_patterns_call
    \/ tail_file_call

SpecLog == InitLog /\ [][NextLog]_vars

Searched == fn.op = "search_file_for_patterns" /\ fn.done /\ fn.in.exists

MatchingPatterns(line, patterns) ==
    {j \in 1..Len(patterns) : Matches(patterns[j], line)}

MatchingLines(lines, patterns) ==
    {i \in 1..Len(lines) : MatchingPatterns(lines[i], patterns) # {}}

Least(S) == CHOOSE i \in S : \A k \in S : i <= k

Tailed == fn.op = "tail_file" /\ fn.done

\* C26: for a file of L lines and n > L, tail_file returns all L lines in
\* their original order, none missing and none duplicated; for a file that
\* does not exist it returns empty.
C26_TailBoundary ==
    Tailed =>
        /\ (fn.in.exists /\ fn.in.num_lines > Len(fn.in.lines)) => fn.out = fn.in.lines
        /\ ~fn.in.exists => fn.out = <<>>

C26_Witness ==
    /\ Tailed
    /\ fn.in.exists
    /\ Len(fn.in.lines) >= 2
    /\ fn.in.lines[1] # fn.in.lines[2]
    /\ fn.in.num_lines > Len(fn.in.lines)
    /\ fn.out = fn.in.lines

Min(a, b) == IF a < b THEN a ELSE b

\* C28: for a file of L lines and every n >= 0, tail_file returns exactly
\* the last min(n, L) lines in order, so nothing for n = 0.
C28_TailLastN ==
    (Tailed /\ fn.in.exists) =>
        LET L == Len(fn.in.lines)
            n == fn.in.num_lines
        IN  fn.out = SubSeq(fn.in.lines, L - Min(n, L) + 1, L)

\* ---------------------------------------------------------------------------
\* ProcessManager.run: subprocess.run with a timeout. subprocess.run waits
\* for the child in communicate(timeout); when the timeout expires it kills
\* the child, waits for it and re-raises TimeoutExpired. Time is counted in
\* seconds; the timeout None is written 0.
\* ---------------------------------------------------------------------------

MaxCode == 2

RunStart == [pc |-> "L86", child |-> "none", elapsed |-> 0, timedOut |-> FALSE,
             logOpen |-> FALSE, returncode |-> None, result |-> None,
             raised |-> "none", signum |-> "none"]

InitRun ==
    /\ InitSupervisor
    /\ \E timeout \in 0..MaxTimeout, code \in 0..MaxCode, log_file \in BOOLEAN :
          fn = [op |-> "run",
                in |-> [timeout |-> timeout, code |-> code, log_file |-> log_file],
                done |-> FALSE, out |-> RunStart]

RunAt(pc) == fn.op = "run" /\ ~fn.done /\ fn.out.pc = pc

\* process.py 80-94: the log file is opened, the child is spawned
run_popen ==
    /\ RunAt("L86")
    /\ fn' = [fn EXCEPT !.out.pc = "communicate", !.out.child = "running",
                        !.out.logOpen = fn.in.log_file]
    /\ UNCHANGED supervisorVars

\* a second passes while run waits in communicate
run_wait ==
    /\ RunAt("communicate")
    /\ fn.out.child = "running"
    /\ fn.out.elapsed <= MaxTimeout
    /\ fn.in.timeout # 0 => fn.out.elapsed < fn.in.timeout
    /\ fn' = [fn EXCEPT !.out.elapsed = @ + 1]
    /\ UNCHANGED supervisorVars

\* the child exits by itself with its exit code
run_child_exits ==
    /\ fn.op = "run"
    /\ ~fn.done
    /\ fn.out.child = "running"
    /\ fn' = [fn EXCEPT !.out.child = "exited", !.out.returncode = fn.in.code]
    /\ UNCHANGED supervisorVars

\* communicate returns: the child has exited
run_communicate ==
    /\ RunAt("communicate")
    /\ fn.out.child = "exited"
    /\ fn' = [fn EXCEPT !.out.pc = "L96"]
    /\ UNCHANGED supervisorVars

\* communicate raises TimeoutExpired: the child is still running after timeout
run_timeout ==
    /\ RunAt("communicate")
    /\ fn.in.timeout # 0
    /\ fn.out.elapsed >= fn.in.timeout
    /\ fn.out.child = "running"
    /\ fn' = [fn EXCEPT !.out.pc = "kill", !.out.timedOut = TRUE]
    /\ UNCHANGED supervisorVars

run_kill_skipped ==
    /\ RunAt("kill")
    /\ fn' = [fn EXCEPT !.out.pc = "raise"]
    /\ UNCHANGED supervisorVars

\* subprocess.run on TimeoutExpired: process.kill(), process.wait()
run_kill ==
    /\ RunAt("kill")
    /\ fn' = [fn EXCEPT !.out.pc = "raise",
                        !.out.child = IF @ = "running" THEN "killed" ELSE @]
    /\ UNCHANGED supervisorVars

\* TimeoutExpired leaves run through the finally block (105-108)
run_raise ==
    /\ RunAt("raise")
    /\ fn' = [fn EXCEPT !.out.pc = "raised", !.out.raised = "TimeoutExpired",
                        !.out.logOpen = FALSE, !.done = TRUE]
    /\ UNCHANGED supervisorVars

\* process.py 96-108: the exit code is noted, the result returned; no check
run_return ==
    /\ RunAt("L96")
    /\ fn' = [fn EXCEPT !.out.pc = "returned", !.out.result = fn.out.returncode,
                        !.out.logOpen = FALSE, !.done = TRUE]
    /\ UNCHANGED supervisorVars

NextRun ==
    \/ run_popen
    \/ run_wait
    \/ run_child_exits
    \/ run_communicate
    \/ run_timeout
    \/ run_kill
    \/ run_raise
    \/ run_return

SpecRun == InitRun /\ [][NextRun]_vars

RunDone == fn.op = "run" /\ fn.done

ExitedAtStage(tr, i) ==
    \E k \in DOMAIN tr : tr[k] = WaitEv(Waits[i], "exit")

\* no signal of a stage after i was tried, and the wait of stage i is the
\* last step recorded
StoppedAtStage(tr, i) ==
    /\ tr[Len(tr)] = WaitEv(Waits[i], "exit")
    /\ \A k \in DOMAIN tr :
          tr[k].ev = "kill" => \E j \in 1..i : tr[k].sig = StageSignals[j]

\* C29: if the process exits during the wait that follows SIGINT, neither
\* SIGTERM nor SIGKILL is sent; if it exits during the wait that follows
\* SIGTERM, SIGKILL is not sent; in both cases terminate returns True and
\* removes the name.
C29_NoEscalationBeyondNeed ==
    \A i \in {1, 2} :
        /\ (last.kind = "terminate" /\ ~last.intr /\ ExitedAtStage(last.trace, i)) =>
              /\ StoppedAtStage(last.trace, i)
              /\ last.result = "True"
              /\ last.regAfter[last.name] = 0
        /\ \A k \in 1..Len(stack) :
              (stack[k].kind = "terminate" /\ ~stack[k].intr
                   /\ ExitedAtStage(stack[k].trace, i)) =>
                  StoppedAtStage(stack[k].trace, i)

C29_Witness ==
    /\ last.kind = "terminate"
    /\ ~last.intr
    /\ last.trace = <<KillEv("SIGINT", "ok"), WaitEv(WaitInt, "timeout"),
                      KillEv("SIGTERM", "ok"), WaitEv(WaitTerm, "exit")>>
    /\ last.result = "True"

\* the first iteration of the loop is past its scan step (or ended there)
PastFirstScan ==
    \/ wfr.pc \notin {"idle", "L177", "L179", "L185", "done"}
    \/ wfr.probes = 1
    \/ wfr.scanSaw

\* the first iteration was entered and is past its scan step or was ended
FirstIterationRan == PastFirstScan \/ wfr.checkDead

\* C30 (as stated): the first loop iteration performs a fatal-pattern scan,
\* two consecutive scans are at least 2 seconds apart, and every scan starts
\* at offset 0 of the server log.
C30_ScanThrottle ==
    /\ FirstIterationRan => wfr.scans = 1
    /\ wfr.scanGap # None => wfr.scanGap >= 2
    /\ wfr.scans = 1 => wfr.scanPos = 0

\* C30 (amended): with a log manager, the first loop iteration scans once it
\* has found the server process alive; without a log manager no iteration
\* scans; two consecutive scans are at least 2 seconds apart; every scan
\* starts at offset 0.
C30_ScanThrottleWithLog ==
    /\ (PastFirstScan /\ wfr.has_log) => wfr.scans = 1
    /\ ~wfr.has_log => wfr.scans = 0
    /\ (wfr.checkDead /\ wfr.probes = 0) => wfr.scans = 0
    /\ wfr.scanGap # None => wfr.scanGap >= LogCheckPeriod
    /\ wfr.scans = 1 => wfr.scanPos = 0

C30_Witness ==
    /\ wfr.has_log
    /\ wfr.check_interval = 1
    /\ wfr.scanGap # None
    /\ wfr.scanGap >= LogCheckPeriod

\* ---------------------------------------------------------------------------
\* The environment overrides of a start and of the restart after it:
\* start parses env_csv into _extra_env (server.py 94-100, 142); restart
\* writes _extra_env back into a string (257) that its start parses again.
\* ---------------------------------------------------------------------------

MaxEnv == 2

EnvPieces ==
    {<<>>, <<"K">>, <<"K", "=", "v">>, <<" ", "K", " ", "=", " ", "v", " ">>,
     <<"K", "=">>, <<"=", "v">>, <<"K", "=", "w">>, <<"J", "=", "v">>,
     <<"K", "=", "v", "=", "w">>, <<"K", " ", "J", "=", "v", " ", "w">>}

EnvStrings == {Join(parts, ",") : parts \in UNION {[1..n -> EnvPieces] : n \in 0..MaxEnv}}

InitEnv ==
    /\ InitSupervisor
    /\ \E env_csv \in EnvStrings :
          fn = [op |-> "restart_env", in |-> env_csv, done |-> FALSE,
                out |-> [pc |-> "start", extra_env |-> <<>>, env_csv |-> <<>>,
                         env_dict |-> <<>>]]

\* start(args, env_csv): self._extra_env = env_dict
env_start ==
    /\ fn.op = "restart_env"
    /\ ~fn.done
    /\ fn.out.pc = "start"
    /\ fn' = [fn EXCEPT !.out.pc = "restart",
                        !.out.extra_env = parse_env_csv(fn.in)]
    /\ UNCHANGED supervisorVars

\* restart(): the string built at line 257, and the env_dict its start parses
env_restart ==
    /\ fn.op = "restart_env"
    /\ ~fn.done
    /\ fn.out.pc = "restart"
    /\ fn' = [fn EXCEPT !.done = TRUE, !.out.pc = "done",
                        !.out.env_csv = env_to_csv(fn.out.extra_env),
                        !.out.env_dict = parse_env_csv(env_to_csv(fn.out.extra_env))]
    /\ UNCHANGED supervisorVars

NextEnv ==
    \/ env_start
    \/ env_restart

SpecEnv == InitEnv /\ [][NextEnv]_vars

\* the environment round trip of restart: the map parsed again is the map
\* remembered, item for item
EnvRoundTrip ==
    (fn.op = "restart_env" /\ fn.done) =>
        /\ DictItems(fn.out.env_dict) = DictItems(fn.out.extra_env)
        /\ Len(fn.out.env_dict) = Len(fn.out.extra_env)

\* ---------------------------------------------------------------------------
\* VLLMServer.restart (server.py 244-259), called with no arguments, as a
\* frame over the stop and start frames it calls.
\* ---------------------------------------------------------------------------

restart_call(s) ==
    /\ ServerIdle(s)
    /\ stack' = Append(stack, NewFrame("restart", "L251", s))
    /\ last' = NoCall
    /\ UNCHANGED <<processes, order, proc, nextPid, exc, phase,
                   delivered, sigCount, sigSnap>>
    /\ UNCHANGED srvVars

\* line 251: self.stop()
restart_stop ==
    /\ At("restart", "L251")
    /\ stack' = Append(SetTop([Top EXCEPT !.pc = "L252"]),
                       NewFrame("stop", "L230", Top.name))
    /\ UNCHANGED <<processes, order, proc, nextPid, exc, phase, last,
                   delivered, sigCount, sigSnap>>
    /\ UNCHANGED srvVars

\* lines 252-259: the pause, the remembered configuration, self.start(...)
restart_start ==
    /\ At("restart", "L252")
    /\ LET launch == <<sessions[Top.name].args,
                       env_to_csv(sessions[Top.name].env)>>
       IN  stack' = Append(SetTop([Top EXCEPT !.pc = "L259r", !.arg = launch,
                                              !.trace = last.trace]),
                       [NewFrame("start", "L137", Top.name) EXCEPT !.arg = launch])
    /\ UNCHANGED <<processes, order, proc, nextPid, exc, phase, last,
                   delivered, sigCount, sigSnap>>
    /\ UNCHANGED srvVars

\* start returned: restart returns None
restart_return ==
    /\ At("restart", "L259r")
    /\ stack' = Pop
    /\ last' = [Rec(Top, "None", processes) EXCEPT !.pid = last.pid]
    /\ UNCHANGED <<processes, order, proc, nextPid, exc, phase,
                   delivered, sigCount, sigSnap>>
    /\ UNCHANGED srvVars

NextRestart ==
    \/ NextSess
    \/ \E s \in Sessions : restart_call(s)
    \/ restart_stop
    \/ restart_start
    \/ restart_return

SpecRestart == Init /\ [][NextRestart]_vars

\* the session had a start that went through before this call
StartedBefore(r) == r.sessBefore[r.name].args # ""

\* C31: after a successful start(args, env), restart() with no arguments
\* stops the server and starts it again with the launch arguments of the
\* last start and an environment-override map equal to the one parsed at the
\* last start.
C31_RestartRemembers ==
    (last.kind = "restart" /\ StartedBefore(last)) =>
        LET before == last.sessBefore[last.name]
            after == last.sessAfter[last.name]
        IN  /\ last.result = "None"
            /\ (before.proc # 0 => ~Running(before.proc))
            /\ after.proc = last.pid
            /\ after.proc # 0
            /\ after.proc # before.proc
            /\ last.arg[1] = before.args
            /\ DictItems(parse_env_csv(last.arg[2])) = DictItems(before.env)
            /\ after.args = before.args
            /\ DictItems(after.env) = DictItems(before.env)

\* ---------------------------------------------------------------------------
\* signal_handler.py: the module-level cleanup handlers and _signal_handler,
\* installed by setup_signal_handlers together with the atexit registration
\* of _run_cleanup_handlers. sys.exit raises SystemExit at the interrupted
\* line; when it reaches the top the interpreter runs the atexit callbacks
\* and the process ends with the status of the SystemExit.
\* ---------------------------------------------------------------------------

MaxHandlers == 2

CleanupHandlers == 1..MaxHandlers
\* SIGHUP, SIGINT, SIGTERM
SigNums == {1, 2, 15}

GlobalStart ==
    [pc |-> "main", handlers |-> <<>>, registered |-> 0, received |-> FALSE,
     pass |-> "none", i |-> 0, events |-> <<>>, status |-> None]

InitGlobal ==
    /\ InitSupervisor
    /\ fn = [op |-> "signal_handler", in |-> <<>>, done |-> FALSE,
             out |-> GlobalStart]

GlobalAt(pcs) == fn.op = "signal_handler" /\ ~fn.done /\ fn.out.pc \in pcs

Event(kind, what) == <<kind, what>>

\* lines 12-20: register_cleanup(handler)
register_cleanup ==
    /\ GlobalAt({"main"})
    /\ fn.out.registered <= MaxHandlers
    /\ \E h \in CleanupHandlers :
          fn' = [fn EXCEPT
                   !.out.registered = @ + 1,
                   !.out.handlers =
                       IF \E k \in 1..Len(@) : @[k] = h THEN @ ELSE Append(@, h)]
    /\ UNCHANGED supervisorVars

\* lines 33-47: the first signal: _signal_received = True, then
\* _run_cleanup_handlers() starts
signal_first ==
    /\ GlobalAt({"main"})
    /\ ~fn.out.received
    /\ \E n \in SigNums :
          fn' = [fn EXCEPT !.out.received = TRUE, !.out.pc = "loop",
                           !.out.pass = "signal", !.out.i = 1,
                           !.out.events = Append(@, Event("signal", n)),
                           !.out.status = 128 + n]
    /\ UNCHANGED supervisorVars

\* lines 26-28: for handler in _cleanup_handlers: handler() is entered
cleanup_enter ==
    /\ GlobalAt({"loop"})
    /\ fn.out.i <= Len(fn.out.handlers)
    /\ fn' = [fn EXCEPT !.out.pc = "handler",
                        !.out.events = Append(@, Event("call", fn.out.handlers[fn.out.i]))]
    /\ UNCHANGED supervisorVars

\* lines 28-30: the handler returns, or raises an Exception that is printed
cleanup_leave ==
    /\ GlobalAt({"handler"})
    /\ \E how \in {"returned", "raised"} :
          fn' = [fn EXCEPT !.out.pc = "loop", !.out.i = @ + 1,
                           !.out.events = Append(@, Event(how, fn.out.handlers[fn.out.i]))]
    /\ UNCHANGED supervisorVars

\* the loop is over: after the signal pass sys.exit(128 + signum) (line 50)
\* raises SystemExit and the atexit pass follows; after the atexit pass the
\* process ends
cleanup_done ==
    /\ GlobalAt({"loop"})
    /\ fn.out.i > Len(fn.out.handlers)
    /\ fn' = IF fn.out.pass = "signal"
             THEN [fn EXCEPT !.out.pass = "atexit", !.out.i = 1]
             ELSE [fn EXCEPT !.out.pc = "exited", !.done = TRUE,
                             !.out.events = Append(@, Event("exit", fn.out.status))]
    /\ UNCHANGED supervisorVars

\* lines 37-39: a signal while _signal_received is set: sys.exit(128 + signum)
\* raises SystemExit, which `except Exception` (line 29) does not catch; the
\* pass of the handler is left and the atexit pass follows
signal_second ==
    /\ GlobalAt({"loop", "handler"})
    /\ fn.out.pass = "signal"
    /\ \E n \in SigNums :
          fn' = [fn EXCEPT !.out.pc = "loop", !.out.pass = "atexit", !.out.i = 1,
                           !.out.events = Append(@, Event("signal2", n)),
                           !.out.status = 128 + n]
    /\ UNCHANGED supervisorVars

\* the script ends without a signal: atexit runs _run_cleanup_handlers (59)
main_returns ==
    /\ GlobalAt({"main"})
    /\ ~fn.out.received
    /\ fn' = [fn EXCEPT !.out.pc = "loop", !.out.pass = "atexit", !.out.i = 1,
                        !.out.status = 0]
    /\ UNCHANGED supervisorVars

NextGlobal ==
    \/ register_cleanup
    \/ signal_first
    \/ cleanup_enter
    \/ cleanup_leave
    \/ cleanup_done
    \/ signal_second
    \/ main_returns

SpecGlobal == InitGlobal /\ [][NextGlobal]_vars

GlobalEvents == IF fn.op = "signal_handler" THEN fn.out.events ELSE <<>>

\* the handlers called between the first signal and the end of its pass
CallsOfSignalPass ==
    LET ev == GlobalEvents
        calls == SelectSeq(ev, LAMBDA e : e[1] = "call")
    IN  [k \in 1..Len(fn.out.handlers) |-> calls[k][2]]

\* C32: on a signal every registered cleanup handler (each registered once)
\* is invoked in registration order, an exception of one handler does not
\* stop the later ones, and the process exits with status 128 + signal
\* number; a second signal during the cleanup exits at once with 128 + its
\* number, with no further handler invoked.
C32_GlobalSignalHandler ==
    fn.op = "signal_handler" =>
        LET ev == fn.out.events
            hs == fn.out.handlers
        IN  /\ \A a, b \in 1..Len(hs) : hs[a] = hs[b] => a = b
            /\ (fn.out.received /\ fn.out.pass = "atexit"
                    /\ \A k \in 1..Len(ev) : ev[k][1] # "signal2") =>
                  /\ Len(SelectSeq(ev, LAMBDA e : e[1] = "call")) >= Len(hs)
                  /\ CallsOfSignalPass = hs
            /\ (fn.done /\ fn.out.received) =>
                  \E n \in SigNums : fn.out.status = 128 + n
            /\ \A a, b \in 1..Len(ev) :
                  (a < b /\ ev[a][1] = "signal2") =>
                      /\ ev[b][1] # "call"
                      /\ ev[b][1] = "exit" => ev[b][2] = 128 + ev[a][2]

\* ---------------------------------------------------------------------------
\* Two servers, one after the other, on the log file "server": the file is
\* truncated once by _setup_logging (init_log_file), and every
\* run_background opens it with mode 'a'. fn.in holds the lines the earlier
\* server wrote; fn.done says that the second server has been started.
\* ---------------------------------------------------------------------------

InitRelaunch ==
    /\ processes = [n \in Names |-> IF n = ServerName THEN 1 ELSE 0]
    /\ order = <<ServerName>>
    /\ proc = [p \in Pids |-> IF p = 1 THEN "running" ELSE "none"]
    /\ nextPid = 2
    /\ stack = <<>>
    /\ exc = "none"
    /\ phase = "running"
    /\ last = NoCall
    /\ delivered = [p \in Pids |-> [s \in Signals |-> 0]]
    /\ sigCount = 0
    /\ sigSnap = {}
    /\ sessions = [s \in Sessions |->
                      IF s = "s1" THEN [NoSession EXCEPT !.proc = 1]
                      ELSE NoSession]
    /\ clock = EpochStart
    /\ srvlog = <<>>
    /\ httpReady = FALSE
    /\ wfr = WfrIdle
    /\ fn = [op |-> "relaunch", in |-> <<>>, done |-> FALSE, out |-> <<>>]
    /\ \E k \in {"run_variant", "run_evaluation"} :
          driver = [kind |-> k, pc |-> "earlier", clients |-> 0,
                    todo |-> IF k = "run_variant" THEN MaxRates ELSE 1]

\* the first server writes a line to the log
earlier_server_writes(line) ==
    /\ fn.op = "relaunch"
    /\ ~fn.done
    /\ Len(srvlog) < MaxLog
    /\ srvlog' = Append(srvlog, line)
    /\ fn' = [fn EXCEPT !.in = Append(@, line)]
    /\ UNCHANGED <<processes, order, proc, nextPid, stack, exc, phase, last,
                   delivered, sigCount, sigSnap, sessions, clock, httpReady,
                   wfr, driver>>

\* stop() ends the first server and removes it; the next start() launches
\* the second one, whose run_background opens the log for appending
\* (process.py 138-141): the lines of the first server stay in the file
relaunch ==
    /\ fn.op = "relaunch"
    /\ ~fn.done
    /\ driver.pc = "earlier"
    /\ proc' = [proc EXCEPT ![1] = "reaped", ![nextPid] = "running"]
    /\ processes' = [processes EXCEPT ![ServerName] = nextPid]
    /\ sessions' = [sessions EXCEPT !["s1"].proc = nextPid]
    /\ nextPid' = nextPid + 1
    /\ httpReady' = FALSE
    /\ driver' = [driver EXCEPT !.pc = "wait"]
    /\ fn' = [fn EXCEPT !.done = TRUE]
    /\ UNCHANGED <<order, stack, exc, phase, last, delivered, sigCount,
                   sigSnap, clock, srvlog, wfr>>

NextRelaunch ==
    \/ \E line \in LogLines : earlier_server_writes(line)
    \/ relaunch
    \/ NextWait

SpecRelaunch == InitRelaunch /\ [][NextRelaunch]_vars

\* the lines the server of the current start has written
CurrentServerLines ==
    IF fn.op = "relaunch" THEN SubSeq(srvlog, Len(fn.in) + 1, Len(srvlog))
    ELSE srvlog

\* C33: a fatal-pattern failure of wait_for_ready is caused only by output
\* of the server of the current start: after stop and a new start on the same
\* log, wait_for_ready does not fail because of a fatal line of the earlier
\* server.
C33_FatalOnlyFromCurrentServer ==
    (fn.op = "relaunch" /\ wfr.result = "VLLMServerError: fatal") =>
        HasFatal(CurrentServerLines)

\* ---------------------------------------------------------------------------
\* BenchmarkRunner.run_branch iterating over variants and run_variant
\* iterating over rates, with the ProcessManager signal handler running on
\* top of them. fn.out.registered: "vllm_server" is in the registry;
\* fn.out.signum: the signal whose handler has run; fn.out.after: servers
\* launched after a SIGTERM was handled.
\* ---------------------------------------------------------------------------

DriveStart ==
    [pc |-> "variant", variant |-> 0, rate |-> 0, registered |-> FALSE,
     server |-> "none", launches |-> 0, signum |-> "none", after |-> 0,
     exc |-> "none"]

InitDrive ==
    /\ InitSupervisor
    /\ \E variants \in 1..MaxVariants, rates \in 0..MaxRates :
          fn = [op |-> "drive",
                in |-> [variants |-> variants, rates |-> rates],
                done |-> FALSE, out |-> DriveStart]

DriveAt(pc) == fn.op = "drive" /\ fn.out.pc = pc

DriveStep(out) ==
    /\ fn' = [fn EXCEPT !.out = out]
    /\ UNCHANGED supervisorVars

\* run_branch line 325: the next variant, or the end of the loop
drive_variant ==
    /\ DriveAt("variant")
    /\ DriveStep(IF fn.out.variant < fn.in.variants
                    THEN [fn.out EXCEPT !.variant = @ + 1, !.pc = "start"]
                    ELSE [fn.out EXCEPT !.pc = "returned"])

\* run_variant line 275: server.start(...) launches and registers the server
drive_start ==
    /\ DriveAt("start")
    /\ DriveStep([fn.out EXCEPT
                     !.registered = TRUE,
                     !.server = "running",
                     !.launches = @ + 1,
                     !.after = IF fn.out.signum = "SIGTERM" THEN @ + 1 ELSE @,
                     !.pc = "wait"])

\* run_variant lines 277-279: wait_for_ready raises when the server is not
\* registered any more (is_running is False) or a fatal line is found,
\* returns False on a timeout, True when the server answers
drive_wait(outcome) ==
    /\ DriveAt("wait")
    /\ ~fn.out.registered => outcome = "VLLMServerError"
    /\ DriveStep(IF outcome = "True"
                    THEN [fn.out EXCEPT !.pc = "rates", !.rate = 0]
                 ELSE IF outcome = "False"
                    THEN [fn.out EXCEPT !.pc = "exit"]
                 ELSE [fn.out EXCEPT !.pc = "exit", !.exc = outcome])

\* run_variant lines 282-283: one client command; run_client_for_rate
\* returns a boolean that the loop does not look at
drive_client ==
    /\ DriveAt("rates")
    /\ fn.out.rate < fn.in.rates
    /\ DriveStep([fn.out EXCEPT !.rate = @ + 1])

\* the loop over the rates is over
drive_rates_done ==
    /\ DriveAt("rates")
    /\ fn.out.rate = fn.in.rates
    /\ DriveStep([fn.out EXCEPT !.pc = "exit"])

\* VLLMServer.__exit__: stop() terminates the server when it is registered;
\* the exception of the body, if any, goes on to the caller of run_branch
drive_exit ==
    /\ DriveAt("exit")
    /\ DriveStep([fn.out EXCEPT
                     !.registered = FALSE,
                     !.server = IF fn.out.registered THEN "terminated" ELSE @,
                     !.pc = IF fn.out.exc # "none" THEN "raised"
                            ELSE "variant"])

\* ProcessManager._signal_handler: terminate_all, then KeyboardInterrupt for
\* SIGINT only; after SIGTERM the interrupted code resumes where it was
drive_signal(signum) ==
    /\ fn.op = "drive"
    /\ fn.out.pc \notin {"returned", "raised"}
    /\ fn.out.signum = "none"
    /\ DriveStep([fn.out EXCEPT
                     !.registered = FALSE,
                     !.server = IF fn.out.registered THEN "terminated" ELSE @,
                     !.signum = signum,
                     !.exc = IF signum = "SIGINT" THEN "KeyboardInterrupt"
                             ELSE @,
                     !.pc = IF signum # "SIGINT" THEN @
                            ELSE IF fn.out.pc = "variant" THEN "raised"
                            ELSE "exit"])

NextDrive ==
    \/ drive_variant
    \/ drive_start
    \/ \E outcome \in {"True", "False", "VLLMServerError"} : drive_wait(outcome)
    \/ drive_client
    \/ drive_rates_done
    \/ drive_exit
    \/ \E signum \in {"SIGINT", "SIGTERM"} : drive_signal(signum)

SpecDrive == InitDrive /\ [][NextDrive]_vars

\* C34: after the ProcessManager handler has handled a SIGTERM, the
\* supervising flow starts no further managed process: a driver iterating
\* over rates or variants does not go on to launch the next server.
C34_NoLaunchAfterSigterm ==
    fn.op = "drive" => fn.out.after = 0

\* ---------------------------------------------------------------------------
\* ProcessManager.run interrupted by a signal while subprocess.run waits for
\* the child. The child is not in the registry, so terminate_all of the
\* handler does not reach it. fn.out.signum is the signal handled.
\* ---------------------------------------------------------------------------

\* _signal_handler (process.py 37-43) runs while run waits in communicate:
\* KeyboardInterrupt is raised inside communicate for SIGINT; for SIGTERM the
\* handler returns and communicate goes on waiting
run_signal(signum) ==
    /\ RunAt("communicate")
    /\ fn.out.signum = "none"
    /\ fn' = [fn EXCEPT !.out.signum = signum,
                        !.out.pc = IF signum = "SIGINT" THEN "interrupt"
                                   ELSE @]
    /\ UNCHANGED supervisorVars

\* subprocess.run, `except:` clause: process.kill(), then the exception
\* leaves run through the finally block (105-108)
run_interrupt ==
    /\ RunAt("interrupt")
    /\ fn' = [fn EXCEPT !.out.pc = "raised",
                        !.out.raised = "KeyboardInterrupt",
                        !.out.child = IF @ = "running" THEN "killed" ELSE @,
                        !.out.logOpen = FALSE, !.done = TRUE]
    /\ UNCHANGED supervisorVars

NextRunSignal ==
    \/ NextRun
    \/ \E signum \in {"SIGINT", "SIGTERM"} : run_signal(signum)
    \/ run_interrupt

SpecRunSignal == InitRun /\ [][NextRunSignal]_vars

\* C35: a SIGINT or SIGTERM received while run() waits for its child does
\* not leave the child running: once the signal has been handled and the
\* supervisor goes on, the child has been stopped.
C35_SignalStopsRunChild ==
    (fn.op = "run" /\ fn.out.signum # "none" /\ fn.out.pc # "interrupt") =>
        fn.out.child # "running"

\* ---------------------------------------------------------------------------
\* Several ProcessManager instances in one supervisor. __init__ registers
\* the instance's cleanup_on_exit with atexit and installs the instance's
\* _signal_handler with signal.signal, which replaces the handler installed
\* before. fn.out.handler is the instance whose handler is installed,
\* fn.out.procs[i] the process registered with instance i.
\* ---------------------------------------------------------------------------

MaxInstances == 3

Instances == 1..MaxInstances

InstancesStart ==
    [pc |-> "running", made |-> 0, handler |-> 0,
     procs |-> [i \in Instances |-> "none"], signum |-> "none"]

InitInstances ==
    /\ InitSupervisor
    /\ \E n \in Instances :
          fn = [op |-> "instances", in |-> n, done |-> FALSE,
                out |-> InstancesStart]

InstancesAt(pc) == fn.op = "instances" /\ fn.out.pc = pc

\* ProcessManager.__init__ (process.py 18-35)
ProcessManager_init ==
    /\ InstancesAt("running")
    /\ fn.out.made < fn.in
    /\ fn' = [fn EXCEPT !.out.made = @ + 1, !.out.handler = fn.out.made + 1]
    /\ UNCHANGED supervisorVars

\* instance i starts and registers a background process
instance_run_background(i) ==
    /\ InstancesAt("running")
    /\ i <= fn.out.made
    /\ fn.out.signum = "none"
    /\ fn.out.procs[i] = "none"
    /\ fn' = [fn EXCEPT !.out.procs[i] = "running"]
    /\ UNCHANGED supervisorVars

\* a signal runs the installed handler: terminate_all of that instance, then
\* KeyboardInterrupt for SIGINT, which nothing catches here
instance_signal(signum) ==
    /\ InstancesAt("running")
    /\ fn.out.handler # 0
    /\ fn.out.signum = "none"
    /\ fn' = [fn EXCEPT
                 !.out.signum = signum,
                 !.out.procs[fn.out.handler] =
                     IF @ = "running" THEN "terminated" ELSE @,
                 !.out.pc = IF signum = "SIGINT" THEN "exiting" ELSE @]
    /\ UNCHANGED supervisorVars

\* the main flow comes to its end
instance_main_returns ==
    /\ InstancesAt("running")
    /\ fn' = [fn EXCEPT !.out.pc = "exiting"]
    /\ UNCHANGED supervisorVars

\* interpreter exit: atexit runs cleanup_on_exit of every instance
instances_atexit ==
    /\ InstancesAt("exiting")
    /\ fn' = [fn EXCEPT
                 !.out.procs = [i \in Instances |->
                                   IF fn.out.procs[i] = "running"
                                      THEN "terminated" ELSE fn.out.procs[i]],
                 !.out.pc = "exited", !.done = TRUE]
    /\ UNCHANGED supervisorVars

NextInstances ==
    \/ ProcessManager_init
    \/ \E i \in Instances : instance_run_background(i)
    \/ \E signum \in {"SIGINT", "SIGTERM"} : instance_signal(signum)
    \/ instance_main_returns
    \/ instances_atexit

SpecInstances == InitInstances /\ [][NextInstances]_vars

\* C36: with several ProcessManager instances in one supervisor, a SIGTERM or
\* SIGINT terminates the registered processes of every instance, not only
\* those of the instance constructed last.
C36_SignalReachesEveryInstance ==
    (fn.op = "instances" /\ fn.out.signum # "none") =>
        \A i \in Instances : fn.out.procs[i] # "running"

\* ---------------------------------------------------------------------------
\* cleanup_on_exit over all the processes of the machine: those registered
\* by run_background in this supervisor, and those started by another
\* program of the same user or by another user. fn.in.machine[p] gives the
\* owner of process p and whether its command line matches one of the
\* patterns of cleanup_zombie_processes; fn.out.signalled is the set of
\* processes that received a signal.
\* ---------------------------------------------------------------------------

MaxProcs == 2

MachineProcs == 1..MaxProcs

Owners == {"registered", "other_program", "other_user"}

InitCleanup ==
    /\ InitSupervisor
    /\ \E machine \in [MachineProcs -> [owner : Owners, matches : BOOLEAN]],
          root \in BOOLEAN :
          fn = [op |-> "cleanup_on_exit",
                in |-> [machine |-> machine, root |-> root],
                done |-> FALSE,
                out |-> [pc |-> "L254", signalled |-> {}]]

CleanupAt(pc) == fn.op = "cleanup_on_exit" /\ fn.out.pc = pc

\* line 254: terminate_all signals the process group of every registered
\* process (os.killpg in terminate)
cleanup_terminate_all ==
    /\ CleanupAt("L254")
    /\ fn' = [fn EXCEPT
                 !.out.pc = "L257",
                 !.out.signalled = @ \cup
                     {p \in MachineProcs :
                         fn.in.machine[p].owner = "registered"}]
    /\ UNCHANGED supervisorVars

\* the processes `pkill -9 -f pattern` (no -u) signals: every process whose
\* command line matches and that the caller is allowed to signal
Pkilled ==
    {p \in MachineProcs :
        /\ fn.in.machine[p].matches
        /\ fn.in.machine[p].owner = "other_user" => fn.in.root}

\* line 257: cleanup_zombie_processes() with user=None (utils.py 21-48)
cleanup_zombies ==
    /\ CleanupAt("L257")
    /\ fn' = [fn EXCEPT !.out.pc = "exited",
                        !.out.signalled = @ \cup Pkilled,
                        !.done = TRUE]
    /\ UNCHANGED supervisorVars

NextCleanup ==
    \/ cleanup_terminate_all
    \/ cleanup_zombies

SpecCleanup == InitCleanup /\ [][NextCleanup]_vars

\* C37: the supervisor only ever signals processes it started: every kill of
\* terminate, terminate_all and cleanup_on_exit targets a process registered
\* by run_background in this supervisor; no process of another program or of
\* another user is signalled.
C37_OnlyOwnProcessesSignalled ==
    fn.op = "cleanup_on_exit" =>
        \A p \in fn.out.signalled : fn.in.machine[p].owner = "registered"

\* a step of wait_for_ready itself: its position changes
WaitStep == wfr.pc' # wfr.pc

\* C38: wait_for_ready is read-only towards the supervisor: none of its steps
\* sends a signal, changes the registry or stops a running process, whatever
\* its outcome; after a fatal-pattern failure or a timeout the server is
\* still registered.
C38_WaitIsReadOnly ==
    /\ [][WaitStep =>
            /\ processes' = processes
            /\ order' = order
            /\ \A p \in Pids, sg \in Signals :
                  delivered'[p][sg] <= delivered[p][sg]
            /\ \A p \in Pids : Running(p) => proc'[p] = proc[p]]_vars
    /\ [](wfr.result \in {"True", "False", "VLLMServerError: fatal",
                          "VLLMServerError: died"}
             => processes[ServerName] # 0)

\* wait_for_ready has failed on a fatal line or timed out, and the server is
\* registered and running, with no signal sent to it
C38_Witness ==
    /\ wfr.pc = "done"
    /\ wfr.result \in {"False", "VLLMServerError: fatal"}
    /\ wfr.scans = 1
    /\ ServerAlive
    /\ \A sg \in Signals : delivered[processes[ServerName]][sg] = 0

\* ---------------------------------------------------------------------------
\* SIGINT while the main flow is in wait_for_ready inside `with server:`
\* (run_evaluation, eval_runner.py 89-156; run_variant). The server, pid 1,
\* has been started and is registered; the body of the with block is the
\* wait_for_ready call.
\* ---------------------------------------------------------------------------

InitInterrupt ==
    /\ processes = [n \in Names |-> IF n = ServerName THEN 1 ELSE 0]
    /\ order = <<ServerName>>
    /\ proc = [p \in Pids |-> IF p = 1 THEN "running" ELSE "none"]
    /\ nextPid = 2
    /\ exc = "none"
    /\ phase = "running"
    /\ last = NoCall
    /\ delivered = [p \in Pids |-> [s \in Signals |-> 0]]
    /\ sigCount = 0
    /\ sigSnap = {}
    /\ sessions = [s \in Sessions |->
                      IF s = "s1" THEN [NoSession EXCEPT !.proc = 1]
                      ELSE NoSession]
    /\ clock = EpochStart
    /\ srvlog = <<>>
    /\ httpReady = FALSE
    /\ wfr = WfrIdle
    /\ driver = NoDriver
    /\ fn = NoFn
    /\ stack = <<NewFrame("with", "body", "s1")>>

\* the signal arrives while the body, wait_for_ready, is running
interrupt_in_wait ==
    /\ At("with", "body")
    /\ Signal("SIGINT")

NextInterrupt ==
    \/ interrupt_in_wait
    \/ signal_handler_cleanup
    \/ signal_handler_reraise
    \/ terminate_all_snapshot
    \/ terminate_all_loop
    \/ terminate_all_sleep
    \/ terminate_lookup
    \/ terminate_fetch
    \/ terminate_poll
    \/ terminate_del_dead
    \/ \E i \in 1..3 : terminate_kill(i)
    \/ \E i \in 1..3 : terminate_wait(i)
    \/ \E i \in 1..3 : terminate_del(i)
    \/ with_body_done
    \/ with_exit
    \/ with_leave
    \/ stop_terminate
    \/ stop_clear
    \/ main_catches
    \/ main_dies
    \/ main_exit
    \/ cleanup_on_exit_terminate
    \/ cleanup_zombie_processes
    \/ Unwind
    \/ \E p \in Pids : ChildExit(p)

SpecInterrupt == InitInterrupt /\ [][NextInterrupt]_vars

\* C39: SIGINT during wait_for_ready inside `with server:`: the handler
\* runs terminate on the server, KeyboardInterrupt leaves the block, the
\* stop() of the scope exit finds the name removed and neither raises nor
\* signals, and in the end the registry is empty and the session holds no
\* process.
C39_InterruptInWait ==
    /\ (last.kind = "stop" /\ sigCount > 0 /\ phase = "running") =>
          /\ last.result = "None"
          /\ last.trace = <<>>
    /\ (last.kind = "with" /\ sigCount > 0) =>
          /\ last.result = "KeyboardInterrupt"
          /\ \A n \in Names : processes[n] = 0
          /\ sessions[last.name].proc = 0

====
